---- MODULE Spec2Model ----
(***************************************************************************)
(* GenAIAgentService (genai-agent-service.ts): the streaming, tool-calling *)
(* conversation loop of adk-utils, as a state machine.                     *)
(*                                                                         *)
(* One request is modelled: createStreamingResponse builds the stream, the *)
(* stream's start callback emits the start bracket, runs the conversation  *)
(* loop (model turns, tool batches) and emits the end bracket.  The model  *)
(* backend and the tools are the environment: what they yield, return or   *)
(* throw is chosen nondeterministically within the bounds below.           *)
(*                                                                         *)
(* JavaScript values are rendered as follows.  Objects are records whose   *)
(* fields are the keys that are present ('k' in o  is  "k" \in DOMAIN o);  *)
(* strings are TLA+ strings; arrays are sequences.  The source's U+274C    *)
(* (cross mark) is written <U+274C>, the module being ASCII.               *)
(***************************************************************************)
EXTENDS Integers, Sequences, FiniteSets, TLC

VARIABLES
    peer,             \* a second request in flight on the same service
    ollama,           \* OllamaModel: a request to it and what it made of it
    mockLlm,          \* a MockLlm: its chunks, its delay, its generations
    body,             \* POST: the parsed body of the request
    response,         \* POST: what the handler returned or threw
    pc,               \* position of the request: see Positions
    tools,            \* this.tools: the agent's tool catalog
    formattedTools,   \* createStreamingResponse: what formatToolsForGenAI returned
    initialContents,  \* adkContents: the adapted client messages
    currentContents,  \* runConversationLoop: the conversation history
    turnCount,        \* runConversationLoop: turns taken
    functionCalls,    \* streamTurn: the tool calls collected in this turn
    textBuffer,       \* streamTurn: the text accumulator of this turn
    received,         \* the parts handed to processTextDelta in this turn
    yielded,          \* the chunks with text or calls consumed in the turn streaming
    effects,          \* what streamTurn did with the last of them, in program order
    toolPromises,     \* processToolCalls: one slot per call of the batch
    outcomes,         \* what tool.runAsync did, per slot of the batch
    settleOrder,      \* the order in which the running tools settled
    enqueued,         \* what controller.enqueue received, in order
    closeCount,       \* how many times controller.close was called
    modelCalls,       \* how many times generateContentAsync was invoked
    toolRuns,         \* every tool.runAsync invocation, in order
    failure,          \* the error the loop raised, or NoError
    credit            \* what the environment may still produce

vars == <<peer, ollama, mockLlm, body, response, pc, tools, formattedTools, initialContents, currentContents,
          turnCount, functionCalls, textBuffer, received, yielded, effects,
          toolPromises, outcomes, settleOrder, enqueued, closeCount, modelCalls,
          toolRuns, failure, credit>>

Positions == {"idle", "rejected", "threw", "loop", "streaming", "tools", "done",
              "aborted"}

---------------------------------------------------------------------------
(* Bounds of the environment. *)

\* tool-call fragments the backend may yield within one turn
MaxBatch == 2
\* tool-call fragments the backend may yield within one request
MaxCalls == 5
\* what the environment may produce, per request, besides successful calls
\* of registered tools: text fragments, calls that resolve to no tool, tool
\* failures, thrown values that are no Error objects
MaxExtras == 1

\* calls of processTextDelta in one run of the reconciler on its own
MaxDeltas == 2
\* text fragments the backend may yield in the turn of TurnSpec
MaxFragments == 3

\* messages in a request of AdapterSpec
MaxMessages == 2

(* The fixed policy constant of the loop. *)
MAX_TURNS == 5

(* Variant: a loop condition that is off by one. *)
mayTakeTurnInclusive(n) == n <= MAX_TURNS

(* while (turnCount < this.MAX_TURNS) *)
mayTakeTurn(n) == n < MAX_TURNS

(* Variant: a loop that goes on whether or not the turn requested tools.  *)
hasFunctionCallsOrNot(calls) == TRUE

(* if (functionCalls.length > 0) *)
hasFunctionCalls(calls) == Len(calls) > 0

---------------------------------------------------------------------------
(* Strings. *)

startsWith(s, p) == Len(s) >= Len(p) /\ SubSeq(s, 1, Len(p)) = p

(* Variant: a slice that starts one character late. *)
sliceOneLate(s, n) == SubSeq(s, n + 2, Len(s))

slice(s, n) == SubSeq(s, n + 1, Len(s))

(* Thrown values: an Error object with a message, or any other value (here *)
(* a string).  String(e) of an Error is "Error: " followed by its message. *)
ErrorObject(m) == [isError |-> TRUE, message |-> m]

ThrownString(s) == [isError |-> FALSE, message |-> s]

String(e) == IF e.isError THEN "Error: " \o e.message ELSE e.message

NoError == [isError |-> FALSE, message |-> "", none |-> TRUE]

---------------------------------------------------------------------------
(* The wire format. *)

Quote(s) == "\"" \o s \o "\""

Member(k, v) == Quote(k) \o ":" \o Quote(v)

(* JSON.stringify of an SSEChunk: the keys present, in insertion order     *)
(* (type, id, delta, finishReason).  The texts of the model need no        *)
(* escaping.                                                               *)
stringify(chunk) ==
    "{" \o Member("type", chunk.type)
        \o (IF "id" \in DOMAIN chunk THEN "," \o Member("id", chunk.id) ELSE "")
        \o (IF "delta" \in DOMAIN chunk THEN "," \o Member("delta", chunk.delta) ELSE "")
        \o (IF "finishReason" \in DOMAIN chunk
            THEN "," \o Member("finishReason", chunk.finishReason) ELSE "")
        \o "}"

formatSSEChunk(chunk) == "data: " \o stringify(chunk) \o "\n\n"

(* TextEncoder.encode: the UTF-8 bytes of the text, written as the text.   *)
encodeSSEChunk(chunk) == formatSSEChunk(chunk)

RECURSIVE sendSSEChunks(_, _)
sendSSEChunks(queue, chunks) ==
    IF chunks = <<>> THEN queue
    ELSE sendSSEChunks(Append(queue, encodeSSEChunk(Head(chunks))), Tail(chunks))

StartChunks ==
    << [type |-> "start"],
       [type |-> "start-step"],
       [type |-> "text-start", id |-> "text-1"] >>

EndChunks ==
    << [type |-> "text-end", id |-> "text-1"],
       [type |-> "finish-step"],
       [type |-> "finish", finishReason |-> "stop"] >>

sendStartEvents(queue) == sendSSEChunks(queue, StartChunks)

sendEndEvents(queue) == sendSSEChunks(queue, EndChunks)

TextDelta(d) == [type |-> "text-delta", id |-> "text-1", delta |-> d]

ErrorPrefix == "<U+274C> System Error: "

(* Variant: String(error) whatever the error. *)
errorMessageStringified(e) == String(e)

(* error instanceof Error ? error.message : String(error) *)
errorMessage(e) == IF e.isError THEN e.message ELSE String(e)

ErrorDelta(e) == TextDelta(ErrorPrefix \o errorMessage(e))

---------------------------------------------------------------------------
(* The request.  A value the client may send as messages is a record that  *)
(* says what it is: undefined (the key is absent), null, a string, or an   *)
(* array with its items.                                                   *)

Undefined == [undefined |-> TRUE]

ArrayOf(items) == [array |-> items]

StringOf(s) == [string |-> s]

(* Array.isArray(v) *)
isArray(v) == "array" \in DOMAIN v

(* The truth value of v in a condition. *)
truthy(v) ==
    /\ "undefined" \notin DOMAIN v
    /\ "null" \notin DOMAIN v
    /\ "string" \in DOMAIN v => v.string # ""

(* const { messages } = await req.json() *)
messagesOf(b) == IF "messages" \in DOMAIN b THEN b.messages ELSE Undefined

(* Variant: any array passes, the empty one included. *)
validateMessagesAnyArray(messages) == truthy(messages) /\ isArray(messages)

(* Variant: a list of one message does not pass. *)
validateMessagesMoreThanOne(messages) ==
    truthy(messages) /\ isArray(messages) /\ Len(messages.array) > 1

(* Boolean(messages && Array.isArray(messages) && messages.length > 0) *)
validateMessages(messages) ==
    truthy(messages) /\ isArray(messages) /\ Len(messages.array) > 0

(* No second request, and no request to an OllamaModel.                    *)
NoPeer == [none |-> TRUE]

NoOllama == [none |-> TRUE]

NoMockLlm == [none |-> TRUE]

(* What the handler gave back: nothing yet, a Response, or an exception.   *)
NoResponse == [none |-> TRUE]

Thrown(e) == [threw |-> e]

(* new Response(stream, { headers }) *)
StreamResponse ==
    [status  |-> 200,
     body    |-> "stream",
     headers |-> [contentType  |-> "text/event-stream",
                  cacheControl |-> "no-cache",
                  connection   |-> "keep-alive"]]

(* Variant: the details are in the body whenever a string is given, the    *)
(* empty one included.                                                     *)
createErrorResponseAnyDetails(message, status, details) ==
    [status  |-> status,
     body    |-> "{" \o Member("error", message)
                     \o (IF "string" \in DOMAIN details
                         THEN "," \o Member("details", details.string) ELSE "")
                     \o "}",
     headers |-> [contentType |-> "application/json"]]

(* createErrorResponse(message, status, details?): the JSON body has the   *)
(* details only when they are given and not empty.                         *)
createErrorResponse(message, status, details) ==
    [status  |-> status,
     body    |-> "{" \o Member("error", message)
                     \o (IF truthy(details)
                         THEN "," \o Member("details", details.string) ELSE "")
                     \o "}",
     headers |-> [contentType |-> "application/json"]]

---------------------------------------------------------------------------
(* Client messages and their adaptation. *)

MessageLists ==
    { << [role |-> "user", id |-> "1",
          parts |-> << [type |-> "text", text |-> "Hello"] >>] >>,
      << [role |-> "user", id |-> "1",
          parts |-> << [type |-> "text", text |-> "Hi"],
                       [type |-> "file", url |-> "f"] >>],
         [role |-> "assistant", id |-> "2",
          parts |-> << [type |-> "step-start"],
                       [type |-> "text", text |-> "Yes?"] >>] >> }

RECURSIVE TextParts(_)
TextParts(parts) ==
    IF parts = <<>> THEN <<>>
    ELSE IF Head(parts).type = "text"
         THEN <<[text |-> Head(parts).text]>> \o TextParts(Tail(parts))
         ELSE TextParts(Tail(parts))

(* Variant: the client's role names are kept. *)
transformKeepingRoles(messages) ==
    [i \in 1..Len(messages) |->
        [role |-> messages[i].role, parts |-> TextParts(messages[i].parts)]]

transformMessagesToContents(messages) ==
    [i \in 1..Len(messages) |->
        [role |-> IF messages[i].role = "user" THEN "user" ELSE "model",
         parts |-> TextParts(messages[i].parts)]]

---------------------------------------------------------------------------
(* The tool catalog. *)

MockTool == [name |-> "mockTool", declaration |-> TRUE]

InvalidTool == [name |-> "invalidTool", declaration |-> FALSE]

(* A tool already in the backend's format: no name, no _getDeclaration.    *)
PreformattedTool == [functionDeclarations |-> <<"search">>]

ToolConfigs ==
    { <<MockTool>>, <<MockTool, InvalidTool>>,
      <<PreformattedTool>>, <<PreformattedTool, InvalidTool>> }

hasName(t) == "name" \in DOMAIN t

IsPreformatted(t) ==
    "functionDeclarations" \in DOMAIN t \/ "function_declarations" \in DOMAIN t

(* Variant: a tool without declaration is passed over. *)
formatToolsNeverThrows(ts) == FALSE

(* formatToolsForGenAI throws when a tool that is not pre-formatted has no *)
(* declaration.                                                            *)
formatToolsThrows(ts) ==
    \E i \in 1..Len(ts) : ~IsPreformatted(ts[i]) /\ ~ts[i].declaration

(* The error it throws: that of the first such tool, map going in order.   *)
formatToolsError(ts) ==
    LET bad == {i \in 1..Len(ts) : ~IsPreformatted(ts[i]) /\ ~ts[i].declaration}
        first == CHOOSE i \in bad : \A j \in bad : i <= j
    IN  ErrorObject("Tool " \o ts[first].name \o " does not have a declaration")

(* baseTool._getDeclaration(): the declaration, written as the name it     *)
(* declares.                                                               *)
declarationOf(t) == t.name

(* formatToolsForGenAI: a pre-formatted entry as it is, any other entry as *)
(* the list of its one declaration.                                        *)
formatToolsForGenAI(ts) ==
    [i \in 1..Len(ts) |->
        IF IsPreformatted(ts[i]) THEN ts[i]
        ELSE [functionDeclarations |-> <<declarationOf(ts[i])>>]]

(* this.tools.find(...): the first catalog entry with that name, or none.  *)
FoundTools(ts, name) == {i \in 1..Len(ts) : hasName(ts[i]) /\ ts[i].name = name}

(* Variant: a lookup that also finds the entry that declares the name.     *)
findToolByDeclaration(ts, name) ==
    LET found == {i \in 1..Len(ts) :
                     \/ hasName(ts[i]) /\ ts[i].name = name
                     \/ "functionDeclarations" \in DOMAIN ts[i]
                          /\ \E k \in 1..Len(ts[i].functionDeclarations) :
                                 ts[i].functionDeclarations[k] = name
                     \/ "function_declarations" \in DOMAIN ts[i]
                          /\ \E k \in 1..Len(ts[i].function_declarations) :
                                 ts[i].function_declarations[k] = name}
    IN  IF found = {} THEN [undefined |-> TRUE]
        ELSE ts[CHOOSE i \in found : \A j \in found : i <= j]

findToolByName(ts, name) ==
    IF FoundTools(ts, name) = {} THEN [undefined |-> TRUE]
    ELSE ts[CHOOSE i \in FoundTools(ts, name) : \A j \in FoundTools(ts, name) : i <= j]

IsDefined(v) == "undefined" \notin DOMAIN v

---------------------------------------------------------------------------
(* The delta reconciler.  The result is the new accumulator and the chunks *)
(* handed to sendSSEChunks (none or one text-delta).                       *)

Kept(buf) == [textBuffer |-> buf, out |-> <<>>]

(* Variant: every fragment sent as it comes. *)
processTextDeltaVerbatim(part, buf) ==
    IF "text" \notin DOMAIN part \/ part.text = "" THEN Kept(buf)
    ELSE [textBuffer |-> buf \o part.text, out |-> <<TextDelta(part.text)>>]

(* Variant: the accumulator replaced by a fragment that does not extend it. *)
processTextDeltaReplacing(part, buf) ==
    IF "text" \notin DOMAIN part \/ part.text = "" THEN Kept(buf)
    ELSE LET accumulated == startsWith(part.text, buf) /\ Len(buf) > 0
             delta == IF accumulated THEN slice(part.text, Len(buf)) ELSE part.text
         IN  IF accumulated /\ delta = "" THEN Kept(buf)
             ELSE IF ~accumulated /\ Len(buf) > 0 /\ part.text = buf THEN Kept(buf)
             ELSE IF delta # "" THEN [textBuffer |-> part.text,
                                      out |-> <<TextDelta(delta)>>]
             ELSE Kept(buf)

processTextDelta(part, buf) ==
    IF "text" \notin DOMAIN part \/ part.text = "" THEN Kept(buf)
    ELSE LET accumulated == startsWith(part.text, buf) /\ Len(buf) > 0
             delta == IF accumulated THEN slice(part.text, Len(buf)) ELSE part.text
         IN  IF accumulated /\ delta = "" THEN Kept(buf)
             ELSE IF ~accumulated /\ Len(buf) > 0 /\ part.text = buf THEN Kept(buf)
             ELSE IF delta # "" THEN [textBuffer |-> buf \o delta,
                                      out |-> <<TextDelta(delta)>>]
             ELSE Kept(buf)

---------------------------------------------------------------------------
(* The turn executor: the body of the for-await loop of streamTurn.        *)

(* The record of what the loop over the parts did: a chunk handed to       *)
(* controller.enqueue, a part pushed onto functionCalls.                   *)
enqueues(chunks) == [k \in 1..Len(chunks) |-> [enqueue |-> encodeSSEChunk(chunks[k])]]

pushes(part) == IF "functionCall" \in DOMAIN part THEN <<[push |-> part]>> ELSE <<>>

(* Variant: the call is recorded before the text of the part is sent.      *)
processPartCallFirst(part, st) ==
    LET r == IF "text" \in DOMAIN part /\ part.text # ""
             THEN processTextDelta(part, st.textBuffer)
             ELSE Kept(st.textBuffer)
    IN  [textBuffer    |-> r.textBuffer,
         queue         |-> sendSSEChunks(st.queue, r.out),
         functionCalls |-> IF "functionCall" \in DOMAIN part
                           THEN Append(st.functionCalls, part)
                           ELSE st.functionCalls,
         effects       |-> st.effects \o pushes(part) \o enqueues(r.out)]

(* Variant: the accumulator processTextDelta returns is not kept.          *)
processPartKeepingNoText(part, st) ==
    LET r == IF "text" \in DOMAIN part /\ part.text # ""
             THEN processTextDelta(part, st.textBuffer)
             ELSE Kept(st.textBuffer)
    IN  [textBuffer    |-> st.textBuffer,
         queue         |-> sendSSEChunks(st.queue, r.out),
         functionCalls |-> IF "functionCall" \in DOMAIN part
                           THEN Append(st.functionCalls, part)
                           ELSE st.functionCalls,
         effects       |-> st.effects \o enqueues(r.out) \o pushes(part)]

(* One part: text is reconciled and sent first, then a call is recorded.   *)
processPart(part, st) ==
    LET r == IF "text" \in DOMAIN part /\ part.text # ""
             THEN processTextDelta(part, st.textBuffer)
             ELSE Kept(st.textBuffer)
    IN  [textBuffer    |-> r.textBuffer,
         queue         |-> sendSSEChunks(st.queue, r.out),
         functionCalls |-> IF "functionCall" \in DOMAIN part
                           THEN Append(st.functionCalls, part)
                           ELSE st.functionCalls,
         effects       |-> st.effects \o enqueues(r.out) \o pushes(part)]

(* Variant: the parts of a chunk are gone through from the last to the     *)
(* first.                                                                  *)
RECURSIVE processPartsReversed(_, _)
processPartsReversed(parts, st) ==
    IF parts = <<>> THEN st
    ELSE processPart(Head(parts), processPartsReversed(Tail(parts), st))

RECURSIVE processParts(_, _)
processParts(parts, st) ==
    IF parts = <<>> THEN st
    ELSE processParts(Tail(parts), processPart(Head(parts), st))

(* chunk.content?.parts *)
HasParts(chunk) == "content" \in DOMAIN chunk /\ "parts" \in DOMAIN chunk.content

processChunk(chunk, st) ==
    IF HasParts(chunk) THEN processParts(chunk.content.parts, st) ELSE st

---------------------------------------------------------------------------
(* The tool dispatcher. *)

Null == [null |-> TRUE]

IsNull(v) == "null" \in DOMAIN v

(* Variant: the result as the response itself, the name beside it only.    *)
ResponsePartUntagged(name, content) ==
    [functionResponse |-> [name |-> name, response |-> content]]

ResponsePart(name, content) ==
    [functionResponse |->
        [name |-> name, response |-> [name |-> name, content |-> content]]]

ToolNotFound == [error |-> "Tool not found"]

(* call.args || {} *)
argsOf(call) == IF "args" \in DOMAIN call THEN call.args ELSE [empty |-> TRUE]

(* A call part resolves to a tool when it carries a named call and the     *)
(* catalog has a tool of that name.                                        *)
HasNamedCall(callPart) ==
    /\ IsDefined(callPart.functionCall)
    /\ "name" \in DOMAIN callPart.functionCall
    /\ callPart.functionCall.name # ""

Resolvable(ts, callPart) ==
    HasNamedCall(callPart) /\ IsDefined(findToolByName(ts, callPart.functionCall.name))

(* The async callback of functionCalls.map, run up to its first await: it  *)
(* has returned (null, or the 'Tool not found' part), or it has invoked    *)
(* the tool and awaits executeTool.                                        *)
Settled(v) == [state |-> "settled", value |-> v]

(* Variant: a callback that gives up (null) when no tool is found.        *)
dispatchDroppingUnknown(ts, callPart) ==
    IF ~HasNamedCall(callPart) \/ ~Resolvable(ts, callPart) THEN Settled(Null)
    ELSE [state |-> "running", name |-> callPart.functionCall.name,
          args |-> argsOf(callPart.functionCall)]

dispatch(ts, callPart) ==
    IF ~HasNamedCall(callPart) THEN Settled(Null)
    ELSE IF Resolvable(ts, callPart)
         THEN [state |-> "running", name |-> callPart.functionCall.name,
               args |-> argsOf(callPart.functionCall)]
         ELSE Settled(ResponsePart(callPart.functionCall.name, ToolNotFound))

(* Variant: the calls keyed by tool name, a later call of the same name    *)
(* being dropped.                                                          *)
fanOutKeyedByName(ts, calls) ==
    [i \in 1..Len(calls) |->
        IF /\ HasNamedCall(calls[i])
           /\ \E j \in 1..(i - 1) :
                  /\ HasNamedCall(calls[j])
                  /\ calls[j].functionCall.name = calls[i].functionCall.name
        THEN Settled(Null)
        ELSE dispatch(ts, calls[i])]

(* Variant: the calls run one after the other (await inside a for loop):   *)
(* a tool is invoked only once every call before it has settled.           *)
fanOutSequential(ts, calls) ==
    [i \in 1..Len(calls) |->
        IF \E j \in 1..(i - 1) : dispatch(ts, calls[j]).state = "running"
        THEN [state |-> "queued"]
        ELSE dispatch(ts, calls[i])]

(* functionCalls.map(async ...): every callback runs, in order, before the *)
(* map returns.                                                            *)
fanOut(ts, calls) == [i \in 1..Len(calls) |-> dispatch(ts, calls[i])]

Running(promises) == {i \in 1..Len(promises) : promises[i].state = "running"}

RECURSIVE runsOf(_, _)
runsOf(promises, i) ==
    IF i > Len(promises) THEN <<>>
    ELSE (IF promises[i].state = "running"
          THEN <<[name |-> promises[i].name, args |-> promises[i].args]>>
          ELSE <<>>) \o runsOf(promises, i + 1)

(* What tool.runAsync did: returned a value, or threw or rejected.         *)
Pending == [pending |-> TRUE]

Returned(v) == [threw |-> FALSE, value |-> v]

Threw(e) == [threw |-> TRUE, error |-> e]

(* Variant: executeTool without its try/catch. *)
executeToolUncaught(outcome) == outcome

(* executeTool: try { return await tool.runAsync(...) }                    *)
(*              catch (e) { return { error: String(e) } }                  *)
executeTool(outcome) ==
    IF outcome.threw THEN Returned([error |-> String(outcome.error)])
    ELSE Returned(outcome.value)

(* Promise.all resolves once every promise has resolved.                   *)
allSettled(promises) == \A i \in 1..Len(promises) : promises[i].state = "settled"

RECURSIVE valuesAt(_, _)
valuesAt(promises, indexes) ==
    IF indexes = <<>> THEN <<>>
    ELSE (IF IsNull(promises[Head(indexes)].value) THEN <<>>
          ELSE <<promises[Head(indexes)].value>>) \o valuesAt(promises, Tail(indexes))

RECURSIVE immediate(_, _, _)
immediate(promises, order, i) ==
    IF i > Len(promises) THEN <<>>
    ELSE (IF promises[i].state = "settled" /\ \A k \in 1..Len(order) : order[k] # i
          THEN <<i>> ELSE <<>>)
         \o immediate(promises, order, i + 1)

(* Variant: the results pushed as each call completes: the calls that      *)
(* never awaited a tool first, then the tools in the order they settled.   *)
collectAsCompleted(promises, order, i) ==
    valuesAt(promises, immediate(promises, order, 1) \o order)

(* The values of Promise.all, nulls dropped: in the order of the promises, *)
(* whatever the order in which they settled.                               *)
RECURSIVE collect(_, _, _)
collect(promises, order, i) ==
    IF i > Len(promises) THEN <<>>
    ELSE (IF IsNull(promises[i].value) THEN <<>> ELSE <<promises[i].value>>)
         \o collect(promises, order, i + 1)

---------------------------------------------------------------------------
(* The environment: what the backend may yield and what may be thrown.     *)

TextFragments == {"a", "ab"}

MockCall == [functionCall |-> [name |-> "mockTool", args |-> [some |-> "arg"]]]

GhostCall == [functionCall |-> [name |-> "nonExistentTool"]]

NamelessCall == [functionCall |-> [args |-> [some |-> "arg"]]]

UndefinedCall == [functionCall |-> [undefined |-> TRUE]]

ChunkOf(parts) == [content |-> [parts |-> parts]]

PlainChunks ==
    {ChunkOf(<<[text |-> f]>>) : f \in TextFragments}
        \cup {ChunkOf(<<MockCall>>)}
        \cup {ChunkOf(<<[text |-> "b"], MockCall>>)}

OddChunks ==
    { ChunkOf(<<GhostCall>>), ChunkOf(<<NamelessCall>>), ChunkOf(<<UndefinedCall>>),
      ChunkOf(<<[text |-> ""]>>), [usageMetadata |-> TRUE] }

BackendChunks == PlainChunks \cup OddChunks

PartsOf(chunk) == IF HasParts(chunk) THEN chunk.content.parts ELSE <<>>

CallCount(chunk) ==
    Cardinality({i \in 1..Len(PartsOf(chunk)) : "functionCall" \in DOMAIN PartsOf(chunk)[i]})

(* A chunk that changes nothing (no text, no call) is free; a chunk with   *)
(* text or with a call that resolves to no tool is one of the extras.      *)
NoOpChunks == {ChunkOf(<<[text |-> ""]>>), [usageMetadata |-> TRUE]}

Cost(chunk) == IF chunk = ChunkOf(<<MockCall>>) \/ chunk \in NoOpChunks THEN 0 ELSE 1

BackendErrors == {ErrorObject("Streaming error"), ThrownString("backend down")}

ThrowCost(e) == IF e.isError THEN 0 ELSE 1

ToolErrors == {ErrorObject("Tool failed")}

ToolValues == {[success |-> TRUE]}

---------------------------------------------------------------------------
(* The two ways the stream's start callback ends.                          *)

(* try: ... this.sendEndEvents(controller); controller.close()             *)
tryEnd(queue) == sendEndEvents(queue)

(* Variant: a catch block that reports the error and closes, without the  *)
(* end events.                                                             *)
catchEndWithoutEndEvents(queue, e) == sendSSEChunks(queue, <<ErrorDelta(e)>>)

(* catch (error): the error as a text-delta, the end events, close         *)
catchEnd(queue, e) == sendEndEvents(sendSSEChunks(queue, <<ErrorDelta(e)>>))

Finish ==
    /\ pc' = "done"
    /\ enqueued' = tryEnd(enqueued)
    /\ closeCount' = closeCount + 1
    /\ UNCHANGED failure

(* Variant: the catch block reports the error and the loop goes on.        *)
FailAndRetry(e) ==
    /\ pc' = "loop"
    /\ enqueued' = catchEnd(enqueued, e)
    /\ closeCount' = closeCount + 1
    /\ failure' = e

Fail(e) ==
    /\ pc' = "done"
    /\ enqueued' = catchEnd(enqueued, e)
    /\ closeCount' = closeCount + 1
    /\ failure' = e

---------------------------------------------------------------------------
Bodies ==
    {[messages |-> ArrayOf(m)] : m \in MessageLists}
        \cup { [messages |-> ArrayOf(<<>>)], [prompt |-> "Hello"],
               [messages |-> Null], [messages |-> StringOf("Hello")] }

Init ==
    /\ body \in Bodies
    /\ response = NoResponse
    /\ peer = NoPeer
    /\ ollama = NoOllama
    /\ mockLlm = NoMockLlm
    /\ pc = "idle"
    /\ tools \in ToolConfigs
    /\ formattedTools = <<>>
    /\ initialContents = <<>>
    /\ currentContents = <<>>
    /\ turnCount = 0
    /\ functionCalls = <<>>
    /\ textBuffer = ""
    /\ received = <<>>
    /\ yielded = <<>>
    /\ effects = <<>>
    /\ toolPromises = <<>>
    /\ outcomes = <<>>
    /\ settleOrder = <<>>
    /\ enqueued = <<>>
    /\ closeCount = 0
    /\ modelCalls = 0
    /\ toolRuns = <<>>
    /\ failure = NoError
    /\ credit = [calls |-> MaxCalls, extras |-> MaxExtras]

(* POST, the messages not valid: the error response, and nothing else.     *)
PostRejected ==
    /\ pc = "idle"
    /\ ~validateMessages(messagesOf(body))
    /\ pc' = "rejected"
    /\ response' = createErrorResponse("Invalid messages", 400, Undefined)
    /\ UNCHANGED <<peer, ollama, mockLlm, body, tools, formattedTools, initialContents, currentContents, turnCount,
                   functionCalls, textBuffer, received, yielded, effects, toolPromises, outcomes,
                   settleOrder, enqueued, closeCount, modelCalls, toolRuns,
                   failure, credit>>

(* createStreamingResponse(messages): adapt the messages, format the tools *)
(* (which may throw), build the stream; its start callback sends the start *)
(* events and enters runConversationLoop with a copy of the contents.      *)
CreateStreamingResponse(messages) ==
    /\ pc = "idle"
    /\ initialContents' = transformMessagesToContents(messages)
    /\ IF formatToolsThrows(tools)
       THEN /\ pc' = "threw"
            /\ response' = Thrown(formatToolsError(tools))
            /\ UNCHANGED <<formattedTools, currentContents, enqueued>>
       ELSE /\ pc' = "loop"
            /\ formattedTools' = formatToolsForGenAI(tools)
            /\ response' = StreamResponse
            /\ enqueued' = sendStartEvents(enqueued)
            /\ currentContents' = initialContents'
    /\ UNCHANGED <<peer, ollama, mockLlm, body, tools, turnCount, functionCalls, textBuffer, received, yielded, effects,
                   toolPromises, outcomes, settleOrder, closeCount, modelCalls,
                   toolRuns, failure, credit>>

(* Variant: the model is invoked for the next turn while the batch of the  *)
(* turn is still awaited.                                                  *)
InvokeModelEagerly ==
    /\ pc \in {"loop", "tools"}
    /\ mayTakeTurn(turnCount)
    /\ turnCount' = turnCount + 1
    /\ modelCalls' = modelCalls + 1
    /\ functionCalls' = <<>>
    /\ textBuffer' = ""
    /\ received' = <<>>
    /\ yielded' = <<>>
    /\ effects' = <<>>
    /\ pc' = "streaming"
    /\ UNCHANGED <<peer, ollama, mockLlm, body, response, tools, formattedTools, initialContents, currentContents,
                   toolPromises, outcomes, settleOrder, enqueued, closeCount, toolRuns,
                   failure, credit>>

(* Variant: the accumulator of the turn before is kept.                    *)
InvokeModelKeepingText ==
    /\ pc = "loop"
    /\ mayTakeTurn(turnCount)
    /\ turnCount' = turnCount + 1
    /\ modelCalls' = modelCalls + 1
    /\ functionCalls' = <<>>
    /\ received' = <<>>
    /\ yielded' = <<>>
    /\ effects' = <<>>
    /\ pc' = "streaming"
    /\ UNCHANGED <<peer, ollama, mockLlm, body, response, tools, formattedTools, initialContents, currentContents,
                   textBuffer, toolPromises, outcomes, settleOrder, enqueued, closeCount,
                   toolRuns, failure, credit>>

(* while (turnCount < MAX_TURNS) { turnCount++; streamTurn(...): the model *)
(* is invoked and returns its stream.                                      *)
InvokeModel ==
    /\ pc = "loop"
    /\ mayTakeTurn(turnCount)
    /\ turnCount' = turnCount + 1
    /\ modelCalls' = modelCalls + 1
    /\ functionCalls' = <<>>
    /\ textBuffer' = ""
    /\ received' = <<>>
    /\ yielded' = <<>>
    /\ effects' = <<>>
    /\ pc' = "streaming"
    /\ UNCHANGED <<peer, ollama, mockLlm, body, response, tools, formattedTools, initialContents, currentContents, toolPromises,
                   outcomes, settleOrder, enqueued, closeCount, toolRuns, failure, credit>>

(* The same, generateContentAsync throwing when invoked.                   *)
InvokeModelThrows(e) ==
    /\ pc = "loop"
    /\ mayTakeTurn(turnCount)
    /\ turnCount' = turnCount + 1
    /\ modelCalls' = modelCalls + 1
    /\ ThrowCost(e) <= credit.extras
    /\ credit' = [credit EXCEPT !.extras = @ - ThrowCost(e)]
    /\ Fail(e)
    /\ UNCHANGED <<peer, ollama, mockLlm, body, response, tools, formattedTools, initialContents, currentContents, functionCalls,
                   textBuffer, received, yielded, effects, toolPromises, outcomes, settleOrder, toolRuns>>

(* The while condition fails: the loop returns.                            *)
LoopExhausted ==
    /\ pc = "loop"
    /\ ~mayTakeTurn(turnCount)
    /\ Finish
    /\ UNCHANGED <<peer, ollama, mockLlm, body, response, tools, formattedTools, initialContents, currentContents, turnCount,
                   functionCalls, textBuffer, received, yielded, effects, toolPromises, outcomes, settleOrder,
                   modelCalls, toolRuns, credit>>

(* The parts of a chunk that streamTurn hands to processTextDelta.         *)
RECURSIVE handed(_)
handed(parts) ==
    IF parts = <<>> THEN <<>>
    ELSE (IF "text" \in DOMAIN Head(parts) /\ Head(parts).text # ""
          THEN <<Head(parts)>> ELSE <<>>) \o handed(Tail(parts))

(* A chunk with text or with a call. *)
carries(chunk) == handed(PartsOf(chunk)) # <<>> \/ CallCount(chunk) > 0

(* for await (const chunk of llmResponse): one chunk, all its parts.       *)
BackendChunk(chunk) ==
    /\ pc = "streaming"
    /\ Cost(chunk) <= credit.extras
    /\ CallCount(chunk) <= credit.calls
    /\ Len(functionCalls) + CallCount(chunk) <= MaxBatch
    /\ LET st == processChunk(chunk, [textBuffer |-> textBuffer,
                                      queue |-> enqueued,
                                      functionCalls |-> functionCalls,
                                      effects |-> <<>>])
       IN  /\ textBuffer' = st.textBuffer
           /\ enqueued' = st.queue
           /\ functionCalls' = st.functionCalls
           /\ effects' = IF carries(chunk) THEN st.effects ELSE effects
    /\ received' = received \o handed(PartsOf(chunk))
    /\ yielded' = IF carries(chunk) THEN Append(yielded, chunk) ELSE yielded
    /\ credit' = [calls |-> credit.calls - CallCount(chunk),
                   extras |-> credit.extras - Cost(chunk)]
    /\ UNCHANGED <<peer, ollama, mockLlm, body, response, pc, tools, formattedTools, initialContents, currentContents, turnCount,
                   toolPromises, outcomes, settleOrder, closeCount, modelCalls, toolRuns,
                   failure>>

(* The backend's stream throws while it is iterated.                       *)
BackendThrows(e) ==
    /\ pc = "streaming"
    /\ ThrowCost(e) <= credit.extras
    /\ credit' = [credit EXCEPT !.extras = @ - ThrowCost(e)]
    /\ Fail(e)
    /\ yielded' = <<>>
    /\ effects' = <<>>
    /\ UNCHANGED <<peer, ollama, mockLlm, body, response, tools, formattedTools, initialContents, currentContents, turnCount,
                   functionCalls, textBuffer, received, toolPromises, outcomes, settleOrder,
                   modelCalls, toolRuns>>

(* Variant: the turn's text is pushed as a model entry when the turn asked *)
(* for no tool.                                                            *)
BackendEndKeepingText ==
    /\ pc = "streaming"
    /\ IF hasFunctionCalls(functionCalls)
       THEN /\ currentContents' =
                   Append(currentContents, [role |-> "model", parts |-> functionCalls])
            /\ toolPromises' = fanOut(tools, functionCalls)
            /\ toolRuns' = toolRuns \o runsOf(toolPromises', 1)
            /\ outcomes' = [i \in 1..Len(functionCalls) |-> Pending]
            /\ settleOrder' = <<>>
            /\ pc' = "tools"
            /\ UNCHANGED <<enqueued, closeCount, failure>>
       ELSE /\ Finish
            /\ currentContents' =
                   Append(currentContents,
                          [role |-> "model", parts |-> <<[text |-> textBuffer]>>])
            /\ UNCHANGED <<toolPromises, outcomes, settleOrder, toolRuns>>
    /\ yielded' = <<>>
    /\ effects' = <<>>
    /\ UNCHANGED <<peer, ollama, mockLlm, body, response, tools, formattedTools, initialContents, turnCount, functionCalls,
                   textBuffer, received, modelCalls, credit>>

(* Variant: the calls of the last permitted turn are dropped: the loop     *)
(* returns without pushing the model entry or invoking a tool.             *)
BackendEndStoppingAtCap ==
    /\ pc = "streaming"
    /\ IF hasFunctionCalls(functionCalls) /\ mayTakeTurn(turnCount)
       THEN /\ currentContents' =
                   Append(currentContents, [role |-> "model", parts |-> functionCalls])
            /\ toolPromises' = fanOut(tools, functionCalls)
            /\ toolRuns' = toolRuns \o runsOf(toolPromises', 1)
            /\ outcomes' = [i \in 1..Len(functionCalls) |-> Pending]
            /\ settleOrder' = <<>>
            /\ pc' = "tools"
            /\ UNCHANGED <<enqueued, closeCount, failure>>
       ELSE /\ Finish
            /\ UNCHANGED <<currentContents, toolPromises, outcomes, settleOrder,
                           toolRuns>>
    /\ yielded' = <<>>
    /\ effects' = <<>>
    /\ UNCHANGED <<peer, ollama, mockLlm, body, response, tools, formattedTools, initialContents, turnCount, functionCalls,
                   textBuffer, received, modelCalls, credit>>

(* The backend's stream is exhausted: streamTurn returns.  With calls, the *)
(* model entry is pushed and processToolCalls maps the calls to promises;  *)
(* without, the loop breaks.                                               *)
BackendEnd ==
    /\ pc = "streaming"
    /\ IF hasFunctionCalls(functionCalls)
       THEN /\ currentContents' =
                   Append(currentContents, [role |-> "model", parts |-> functionCalls])
            /\ toolPromises' = fanOut(tools, functionCalls)
            /\ toolRuns' = toolRuns \o runsOf(toolPromises', 1)
            /\ outcomes' = [i \in 1..Len(functionCalls) |-> Pending]
            /\ settleOrder' = <<>>
            /\ pc' = "tools"
            /\ UNCHANGED <<enqueued, closeCount, failure>>
       ELSE /\ Finish
            /\ UNCHANGED <<currentContents, toolPromises, outcomes, settleOrder,
                           toolRuns>>
    /\ yielded' = <<>>
    /\ effects' = <<>>
    /\ UNCHANGED <<peer, ollama, mockLlm, body, response, tools, formattedTools, initialContents, turnCount, functionCalls,
                   textBuffer, received, modelCalls, credit>>

(* Variant: a tool that threw is reported on the stream.                   *)
ToolSettlesReporting(i, outcome) ==
    /\ pc = "tools"
    /\ i \in Running(toolPromises)
    /\ outcome.threw => credit.extras > 0
    /\ credit' = IF outcome.threw THEN [credit EXCEPT !.extras = @ - 1] ELSE credit
    /\ outcomes' = [outcomes EXCEPT ![i] = outcome]
    /\ toolPromises' =
           [toolPromises EXCEPT ![i] =
               Settled(ResponsePart(toolPromises[i].name, executeTool(outcome).value))]
    /\ settleOrder' = Append(settleOrder, i)
    /\ enqueued' = IF outcome.threw
                   THEN sendSSEChunks(enqueued, <<ErrorDelta(outcome.error)>>)
                   ELSE enqueued
    /\ UNCHANGED <<peer, ollama, mockLlm, body, response, pc, tools, formattedTools, initialContents, currentContents,
                   turnCount, functionCalls, textBuffer, received, yielded, effects,
                   closeCount, failure, modelCalls, toolRuns>>

(* A running tool settles: executeTool turns what runAsync did into the    *)
(* call's result, and the callback returns the response part.              *)
ToolSettles(i, outcome) ==
    /\ pc = "tools"
    /\ i \in Running(toolPromises)
    /\ outcome.threw => credit.extras > 0
    /\ credit' = IF outcome.threw THEN [credit EXCEPT !.extras = @ - 1] ELSE credit
    /\ outcomes' = [outcomes EXCEPT ![i] = outcome]
    /\ LET r == executeTool(outcome)
       IN  IF r.threw
           THEN /\ Fail(r.error)
                /\ UNCHANGED <<toolPromises, settleOrder>>
           ELSE /\ toolPromises' =
                       [toolPromises EXCEPT ![i] =
                           Settled(ResponsePart(toolPromises[i].name, r.value))]
                /\ settleOrder' = Append(settleOrder, i)
                /\ UNCHANGED <<pc, enqueued, closeCount, failure>>
    /\ UNCHANGED <<peer, ollama, mockLlm, body, response, tools, formattedTools, initialContents, currentContents, turnCount,
                   functionCalls, textBuffer, received, yielded, effects, modelCalls, toolRuns>>

ToolOutcomes == {Returned(v) : v \in ToolValues} \cup {Threw(e) : e \in ToolErrors}

(* Variant: Promise.race in the place of Promise.all: the loop goes on as  *)
(* soon as one promise has settled, with the results there are.            *)
BatchJoinOnFirstResult ==
    /\ pc = "tools"
    /\ \E i \in 1..Len(toolPromises) : toolPromises[i].state = "settled"
    /\ currentContents' =
           Append(currentContents,
                  [role |-> "tool",
                   parts |-> valuesAt(toolPromises,
                                      immediate(toolPromises, settleOrder, 1)
                                          \o settleOrder)])
    /\ pc' = "loop"
    /\ UNCHANGED <<peer, ollama, mockLlm, body, response, tools, formattedTools, initialContents, turnCount, functionCalls,
                   textBuffer, received, yielded, effects,
                   toolPromises, outcomes, settleOrder, enqueued, closeCount,
                   modelCalls, toolRuns, failure, credit>>

(* Variant: the results are pushed onto the parts of the model entry.      *)
BatchJoinIntoModelEntry ==
    /\ pc = "tools"
    /\ allSettled(toolPromises)
    /\ currentContents' =
           [currentContents EXCEPT ![Len(currentContents)].parts =
               @ \o collect(toolPromises, settleOrder, 1)]
    /\ pc' = "loop"
    /\ UNCHANGED <<peer, ollama, mockLlm, body, response, tools, formattedTools, initialContents, turnCount, functionCalls,
                   textBuffer, received, yielded, effects, toolPromises, outcomes, settleOrder,
                   enqueued, closeCount, modelCalls, toolRuns, failure, credit>>

(* Variant: a loop that works on the array it was given, not on a copy.    *)
BatchJoinOnCallerArray ==
    /\ pc = "tools"
    /\ allSettled(toolPromises)
    /\ currentContents' =
           Append(currentContents,
                  [role |-> "tool", parts |-> collect(toolPromises, settleOrder, 1)])
    /\ initialContents' = currentContents'
    /\ pc' = "loop"
    /\ UNCHANGED <<peer, ollama, mockLlm, body, response, tools, formattedTools, turnCount, functionCalls,
                   textBuffer, received, yielded, effects,
                   toolPromises, outcomes, settleOrder, enqueued, closeCount,
                   modelCalls, toolRuns, failure, credit>>

(* Promise.all resolves: the results are pushed as the tool entry and the  *)
(* loop goes back to its condition.                                        *)
BatchJoin ==
    /\ pc = "tools"
    /\ allSettled(toolPromises)
    /\ currentContents' =
           Append(currentContents,
                  [role |-> "tool", parts |-> collect(toolPromises, settleOrder, 1)])
    /\ pc' = "loop"
    /\ UNCHANGED <<peer, ollama, mockLlm, body, response, tools, formattedTools, initialContents, turnCount, functionCalls,
                   textBuffer, received, yielded, effects,
                   toolPromises, outcomes, settleOrder, enqueued, closeCount,
                   modelCalls, toolRuns, failure, credit>>

(* POST, the messages valid: return service.createStreamingResponse(...)   *)
PostAccepted ==
    /\ validateMessages(messagesOf(body))
    /\ CreateStreamingResponse(messagesOf(body).array)

Next ==
    \/ PostRejected
    \/ PostAccepted
    \/ InvokeModel
    \/ \E e \in BackendErrors : InvokeModelThrows(e)
    \/ LoopExhausted
    \/ \E chunk \in BackendChunks : BackendChunk(chunk)
    \/ \E e \in BackendErrors : BackendThrows(e)
    \/ BackendEnd
    \/ \E i \in 1..Len(toolPromises), outcome \in ToolOutcomes : ToolSettles(i, outcome)
    \/ BatchJoin

Spec == Init /\ [][Next]_vars

---------------------------------------------------------------------------
(* The reconciler on its own: processTextDelta called directly, as the     *)
(* unit tests do, on an accumulator given at the start.                    *)

Accumulators == {"", "Hello", "Hello World", "ha"}

ReconcilerParts ==
    {[text |-> t] : t \in {"", "Hello", "Hello World", " World", "World",
                           "ha", "haha", "Hi", " there"}}
        \cup {MockCall}

ReconcilerInit ==
    /\ body = [messages |-> ArrayOf(<<>>)]
    /\ response = NoResponse
    /\ peer = NoPeer
    /\ ollama = NoOllama
    /\ mockLlm = NoMockLlm
    /\ pc = "idle"
    /\ tools = <<MockTool>>
    /\ formattedTools = <<>>
    /\ initialContents = <<>>
    /\ currentContents = <<>>
    /\ turnCount = 0
    /\ functionCalls = <<>>
    /\ textBuffer \in Accumulators
    /\ received = <<>>
    /\ yielded = <<>>
    /\ effects = <<>>
    /\ toolPromises = <<>>
    /\ outcomes = <<>>
    /\ settleOrder = <<>>
    /\ enqueued = <<>>
    /\ closeCount = 0
    /\ modelCalls = 0
    /\ toolRuns = <<>>
    /\ failure = NoError
    /\ credit = [calls |-> 0, extras |-> MaxDeltas]

(* buffer = processTextDelta(part, buffer, controller) *)
ProcessTextDelta(part) ==
    /\ credit.extras > 0
    /\ credit' = [credit EXCEPT !.extras = @ - 1]
    /\ LET r == processTextDelta(part, textBuffer)
       IN  /\ textBuffer' = r.textBuffer
           /\ enqueued' = sendSSEChunks(enqueued, r.out)
    /\ received' = Append(received, part)
    /\ UNCHANGED <<yielded, effects>>
    /\ UNCHANGED <<peer, ollama, mockLlm, body, response, pc, tools, formattedTools, initialContents, currentContents,
                   turnCount, functionCalls, toolPromises, outcomes, settleOrder,
                   closeCount, modelCalls, toolRuns, failure>>

ReconcilerNext == \E part \in ReconcilerParts : ProcessTextDelta(part)

ReconcilerSpec == ReconcilerInit /\ [][ReconcilerNext]_vars

---------------------------------------------------------------------------
(* The transcript adapter: requests with messages of every role, with text *)
(* parts, other parts, both or none.                                       *)

UIParts ==
    { [type |-> "text", text |-> "Hi"], [type |-> "text", text |-> "Yo"],
      [type |-> "file", url |-> "f"] }

UIPartLists ==
    {<<>>} \cup {<<p>> : p \in UIParts} \cup {<<p, q>> : p \in UIParts, q \in UIParts}

UIMessages ==
    {[role |-> r, id |-> "1", parts |-> ps] :
        r \in {"user", "assistant", "system"}, ps \in UIPartLists}

RECURSIVE ListsUpTo(_)
ListsUpTo(n) ==
    IF n = 0 THEN {<<>>}
    ELSE ListsUpTo(n - 1)
            \cup {Append(l, m) : l \in {k \in ListsUpTo(n - 1) : Len(k) = n - 1},
                                 m \in UIMessages}

AdapterInit ==
    /\ body \in {[messages |-> ArrayOf(l)] : l \in ListsUpTo(MaxMessages)}
    /\ response = NoResponse
    /\ peer = NoPeer
    /\ ollama = NoOllama
    /\ mockLlm = NoMockLlm
    /\ pc = "idle"
    /\ tools = <<MockTool>>
    /\ formattedTools = <<>>
    /\ initialContents = <<>>
    /\ currentContents = <<>>
    /\ turnCount = 0
    /\ functionCalls = <<>>
    /\ textBuffer = ""
    /\ received = <<>>
    /\ yielded = <<>>
    /\ effects = <<>>
    /\ toolPromises = <<>>
    /\ outcomes = <<>>
    /\ settleOrder = <<>>
    /\ enqueued = <<>>
    /\ closeCount = 0
    /\ modelCalls = 0
    /\ toolRuns = <<>>
    /\ failure = NoError
    /\ credit = [calls |-> 0, extras |-> 0]

AdapterNext == PostRejected \/ PostAccepted

AdapterSpec == AdapterInit /\ [][AdapterNext]_vars

---------------------------------------------------------------------------
(* One request to a backend that streams text only, in a single turn.      *)

Fragments == {"h", "a", "ha", "hah", "haha"}

TextChunks == {ChunkOf(<<[text |-> f]>>) : f \in Fragments}

TurnInit ==
    /\ body = [messages |-> ArrayOf(<<[role |-> "user", id |-> "1",
                                       parts |-> <<[type |-> "text", text |-> "Hello"]>>]>>)]
    /\ response = NoResponse
    /\ peer = NoPeer
    /\ ollama = NoOllama
    /\ mockLlm = NoMockLlm
    /\ pc = "idle"
    /\ tools = <<MockTool>>
    /\ formattedTools = <<>>
    /\ initialContents = <<>>
    /\ currentContents = <<>>
    /\ turnCount = 0
    /\ functionCalls = <<>>
    /\ textBuffer = ""
    /\ received = <<>>
    /\ yielded = <<>>
    /\ effects = <<>>
    /\ toolPromises = <<>>
    /\ outcomes = <<>>
    /\ settleOrder = <<>>
    /\ enqueued = <<>>
    /\ closeCount = 0
    /\ modelCalls = 0
    /\ toolRuns = <<>>
    /\ failure = NoError
    /\ credit = [calls |-> 0, extras |-> MaxFragments]

TurnNext ==
    \/ PostAccepted
    \/ InvokeModel
    \/ \E chunk \in TextChunks : BackendChunk(chunk)
    \/ BackendEnd

TurnSpec == TurnInit /\ [][TurnNext]_vars

---------------------------------------------------------------------------
(* Reading the stream back, as a client does: the type of an event is read *)
(* off its wire text.                                                      *)

EventTypes == {"start", "start-step", "text-start", "text-delta", "text-end",
               "finish-step", "finish"}

IsEvent(w, t) == startsWith(w, "data: {\"type\":\"" \o t \o "\"")

TypesOf(queue) ==
    [i \in 1..Len(queue) |-> CHOOSE t \in EventTypes : IsEvent(queue[i], t)]

StartTypes == <<"start", "start-step", "text-start">>

EndTypes == <<"text-end", "finish-step", "finish">>

ErrorDeltaLead == "data: {\"type\":\"text-delta\",\"id\":\"text-1\",\"delta\":\"<U+274C> System Error: "

IsErrorDelta(w) == startsWith(w, ErrorDeltaLead)

Opened(types) ==
    /\ Len(types) >= 3
    /\ SubSeq(types, 1, 3) = StartTypes

OnlyDeltas(types, from, to) == \A i \in from..to : types[i] = "text-delta"

Last(seq) == seq[Len(seq)]

(* C1: in every run, ended normally or by an error of the loop, the events *)
(* enqueued are start, start-step, text-start, then text-deltas only, then *)
(* text-end, finish-step, finish; each bracket event occurs once, close is *)
(* called once, after finish, and nothing is enqueued after finish.        *)
C1_LifecycleBracket ==
    LET types == TypesOf(enqueued)
        n == Len(types)
    IN  /\ pc \in {"idle", "threw"} => enqueued = <<>> /\ closeCount = 0
        /\ pc \in {"loop", "streaming", "tools"} =>
              /\ Opened(types)
              /\ OnlyDeltas(types, 4, n)
              /\ closeCount = 0
        /\ pc = "done" =>
              /\ n >= 6
              /\ Opened(types)
              /\ OnlyDeltas(types, 4, n - 3)
              /\ SubSeq(types, n - 2, n) = EndTypes
              /\ closeCount = 1

(* A run that ended by an error of the loop after text had been streamed.  *)
C1_Witness ==
    /\ pc = "done"
    /\ failure # NoError
    /\ Len(enqueued) = 8
    /\ ~IsErrorDelta(enqueued[4])

EndWires ==
    << "data: {\"type\":\"text-end\",\"id\":\"text-1\"}\n\n",
       "data: {\"type\":\"finish-step\"}\n\n",
       "data: {\"type\":\"finish\",\"finishReason\":\"stop\"}\n\n" >>

(* C2: when the backend throws, on invocation or while its stream is read, *)
(* the stream keeps the start bracket and the text-deltas sent so far, and *)
(* gets exactly one more text-delta, '<U+274C> System Error: ' followed by *)
(* the error's message, then text-end, finish-step, finish, and is closed. *)
C2_BackendFailureClosesCleanly ==
    [][ (failure = NoError /\ failure' # NoError) =>
            /\ Opened(TypesOf(enqueued))
            /\ OnlyDeltas(TypesOf(enqueued), 4, Len(enqueued))
            /\ enqueued' = enqueued
                            \o <<ErrorDeltaLead \o failure'.message \o "\"}\n\n">>
                            \o EndWires
            /\ closeCount = 0
            /\ closeCount' = 1
            /\ pc' = "done" ]_vars

(* The backend threw an Error in a later turn, after text in that turn.    *)
C2_Witness ==
    /\ pc = "done"
    /\ failure # NoError
    /\ failure.isError
    /\ turnCount >= 2
    /\ textBuffer # ""

(* The entries the loop appended to the history. *)
Appended == SubSeq(currentContents, Len(initialContents) + 1, Len(currentContents))

ModelEntries == {h \in 1..Len(Appended) : Appended[h].role = "model"}

EndedNormally == pc = "done" /\ failure = NoError

(* C3: turnCount stays within 0..5 and equals the number of invocations of *)
(* the model; a run in which every turn requested a tool takes exactly 5   *)
(* turns and ends with the end bracket and no error text-delta.            *)
C3_TurnBudget ==
    /\ turnCount \in 0..5
    /\ modelCalls = turnCount
    /\ (EndedNormally /\ Len(functionCalls) > 0) =>
          /\ turnCount = 5
          /\ Cardinality(ModelEntries) = 5
          /\ \A i \in 1..Len(enqueued) : ~IsErrorDelta(enqueued[i])
          /\ SubSeq(enqueued, Len(enqueued) - 2, Len(enqueued)) = EndWires

(* Five turns, each with a tool call, then a normal end.                   *)
C3_Witness ==
    /\ EndedNormally
    /\ Len(functionCalls) > 0
    /\ turnCount = 5
    /\ modelCalls = 5

(* C4: the loop ends at the first turn without tool calls, whatever budget *)
(* remains: the turns taken are min(5, index of the first turn without     *)
(* calls); no calls in turn 1 means one invocation of the model and no     *)
(* invocation of a tool.                                                   *)
C4_EarlyExit ==
    EndedNormally =>
        LET k == Cardinality(ModelEntries)
        IN  /\ turnCount = IF functionCalls = <<>> THEN k + 1 ELSE 5
            /\ turnCount <= 5
            /\ modelCalls = turnCount
            /\ k = 0 => (modelCalls = 1 /\ toolRuns = <<>>)

(* The loop ended in turn 3 of 5, the first turn without calls.            *)
C4_Witness ==
    /\ EndedNormally
    /\ functionCalls = <<>>
    /\ turnCount = 3
    /\ Cardinality(ModelEntries) = 2

---------------------------------------------------------------------------
(* What the claims expect of a batch, stated on the calls of the turn, the *)
(* catalog and what the tools did.                                         *)

(* The calls of the latest batch: the parts of the last model entry the   *)
(* loop appended.                                                          *)
RECURSIVE LastModelEntry(_)
LastModelEntry(h) ==
    IF h <= Len(initialContents) THEN 0
    ELSE IF currentContents[h].role = "model" THEN h
    ELSE LastModelEntry(h - 1)

BatchCalls ==
    LET h == LastModelEntry(Len(currentContents))
    IN  IF h = 0 THEN <<>> ELSE currentContents[h].parts

Named(i) ==
    /\ "undefined" \notin DOMAIN BatchCalls[i].functionCall
    /\ "name" \in DOMAIN BatchCalls[i].functionCall
    /\ BatchCalls[i].functionCall.name # ""

NameOf(i) == BatchCalls[i].functionCall.name

Registered(name) ==
    \E t \in 1..Len(tools) : "name" \in DOMAIN tools[t] /\ tools[t].name = name

NamedCalls == {i \in 1..Len(BatchCalls) : Named(i)}

ToolCalls == {i \in NamedCalls : Registered(NameOf(i))}

UnknownCalls == {i \in NamedCalls : ~Registered(NameOf(i))}

Tagged(name, payload) ==
    [functionResponse |->
        [name |-> name, response |-> [name |-> name, content |-> payload]]]

Failed(i) == "threw" \in DOMAIN outcomes[i] /\ outcomes[i].threw

PayloadOf(i) ==
    IF ~Registered(NameOf(i)) THEN [error |-> "Tool not found"]
    ELSE IF outcomes[i].threw THEN [error |-> "Error: " \o outcomes[i].error.message]
    ELSE outcomes[i].value

ExpectedPart(i) == Tagged(NameOf(i), PayloadOf(i))

(* The k-th smallest element of a set of indexes. *)
Kth(S, k) == CHOOSE x \in S : Cardinality({y \in S : y <= x}) = k

(* The state right after a batch was joined: the last entry of the history *)
(* is the tool entry that answers the calls of the last model entry.       *)
Joined == pc = "loop" /\ Len(Appended) > 0

BatchResults == Last(currentContents).parts

(* C5: a call naming a tool that is not registered invokes no tool and     *)
(* fails nothing: its promise resolves at once to the part tagged with the *)
(* requested name and carrying 'Tool not found', that part is in the tool  *)
(* entry appended to the history, and with budget left the loop takes the  *)
(* next model turn.                                                        *)
C5_ToolNotFound ==
    /\ \A r \in 1..Len(toolRuns) : Registered(toolRuns[r].name)
    /\ pc = "tools" =>
          \A i \in UnknownCalls :
              /\ toolPromises[i] =
                     [state |-> "settled",
                      value |-> Tagged(NameOf(i), [error |-> "Tool not found"])]
              /\ outcomes[i] = Pending
    /\ (Joined /\ UnknownCalls # {}) =>
          /\ Last(currentContents).role = "tool"
          /\ \A i \in UnknownCalls :
                 \E j \in 1..Len(BatchResults) :
                     BatchResults[j] = Tagged(NameOf(i), [error |-> "Tool not found"])
          /\ failure = NoError
          /\ turnCount < 5 => ENABLED InvokeModel

(* The model is in its second turn, after a batch whose only call named an *)
(* unregistered tool: no tool has run.                                     *)
C5_Witness ==
    /\ pc = "streaming"
    /\ turnCount = 2
    /\ toolRuns = <<>>
    /\ Last(currentContents) =
           [role |-> "tool",
            parts |-> <<Tagged("nonExistentTool", [error |-> "Tool not found"])>>]

ToolErrorDelta(i) ==
    ErrorDeltaLead \o outcomes[i].error.message \o "\"}\n\n"

(* C6: a tool that throws or rejects does not abort the conversation: the  *)
(* call's result is {error: String(cause)}, it is in the tool entry of the *)
(* history, no error text-delta is sent for it, and with budget left the   *)
(* loop takes the next model turn.                                         *)
C6_ToolFailureRecovered ==
    \A i \in 1..Len(outcomes) :
        Failed(i) =>
            /\ toolPromises[i] =
                   [state |-> "settled",
                    value |-> Tagged(NameOf(i),
                                     [error |-> "Error: " \o outcomes[i].error.message])]
            /\ failure # outcomes[i].error
            /\ \A k \in 1..Len(enqueued) : enqueued[k] # ToolErrorDelta(i)
            /\ pc # "tools" =>
                  /\ Last(currentContents).role = "tool"
                  /\ \E j \in 1..Len(BatchResults) : BatchResults[j] = toolPromises[i].value
            /\ (pc = "loop" /\ turnCount < 5) => ENABLED InvokeModel

(* The model is in a later turn after a batch in which a tool failed.      *)
C6_Witness ==
    /\ pc = "streaming"
    /\ turnCount >= 2
    /\ \E i \in 1..Len(outcomes) : Failed(i)

(* C7: whatever the order in which the tools of a batch settle, and        *)
(* whether they fail, the result parts appended to the history are in the  *)
(* order of the calls they answer.                                         *)
C7_ResultsInCallOrder ==
    Joined =>
        \E S \in SUBSET NamedCalls :
            /\ Cardinality(S) = Len(BatchResults)
            /\ \A j \in 1..Len(BatchResults) : BatchResults[j] = ExpectedPart(Kth(S, j))

(* A joined batch whose second tool settled before its first, one of the   *)
(* two having failed.                                                      *)
C7_Witness ==
    /\ Joined
    /\ settleOrder = <<2, 1>>
    /\ \E i \in 1..2 : Failed(i)

(* C8, as stated: processToolCalls returns one result part per collected   *)
(* call: as many parts as calls, the i-th tagged with the name of the i-th *)
(* call and wrapping that call's own result or error payload.              *)
C8_OnePartPerCollectedCall ==
    Joined =>
        /\ Len(BatchResults) = Len(BatchCalls)
        /\ \A i \in 1..Len(BatchCalls) : Named(i) /\ BatchResults[i] = ExpectedPart(i)

(* C8, amended: processToolCalls returns one result part per collected     *)
(* call that carries a functionCall with a name, and none for a part whose *)
(* functionCall is undefined or nameless: as many parts as named calls,    *)
(* the j-th tagged with the name of the j-th named call and wrapping that  *)
(* call's own result or error payload.                                     *)
C8_OnePartPerNamedCall ==
    Joined =>
        /\ Len(BatchResults) = Cardinality(NamedCalls)
        /\ \A j \in 1..Len(BatchResults) :
               BatchResults[j] = ExpectedPart(Kth(NamedCalls, j))

(* A joined batch of a nameless call and a call of a registered tool: one  *)
(* result part for two collected calls.                                    *)
C8_Witness ==
    /\ Joined
    /\ Len(BatchCalls) = 2
    /\ Cardinality(NamedCalls) = 1
    /\ Len(BatchResults) = 1

ToolEntryAppended ==
    /\ Len(currentContents') = Len(currentContents) + 1
    /\ Last(currentContents').role = "tool"

(* C9: the batch is a synchronization point: the model is invoked for the  *)
(* next turn, and the tool entry of a turn is appended to the history,     *)
(* only when every promise of the turn's batch has settled.                *)
C9_BatchIsBarrier ==
    [][ (modelCalls' # modelCalls \/ ToolEntryAppended) =>
            \A i \in 1..Len(toolPromises) : toolPromises[i].state = "settled" ]_vars

(* The model is in its next turn after a batch of two tools, both settled. *)
C9_Witness ==
    /\ pc = "streaming"
    /\ turnCount >= 2
    /\ Len(settleOrder) = 2
    /\ Len(Appended) = 2 * (turnCount - 1)

Rank(S, i) == Cardinality({y \in S : y <= i})

(* C10: the tools of a batch do not wait for one another: while the batch  *)
(* is awaited, in particular before any of its tools has settled, every    *)
(* call that resolves to a tool has had its tool invoked, in call order,   *)
(* with its own arguments.                                                 *)
C10_AllToolsStartedAtFanOut ==
    pc = "tools" =>
        /\ Len(toolRuns) >= Cardinality(ToolCalls)
        /\ \A i \in ToolCalls :
               /\ toolPromises[i].state \in {"running", "settled"}
               /\ toolPromises[i].state = "settled" => outcomes[i] # Pending
               /\ toolRuns[Len(toolRuns) - Cardinality(ToolCalls) + Rank(ToolCalls, i)].name
                      = NameOf(i)

(* Two tools of one batch in flight at once, none settled yet.             *)
C10_Witness ==
    /\ pc = "tools"
    /\ Cardinality(Running(toolPromises)) = 2
    /\ settleOrder = <<>>

---------------------------------------------------------------------------
(* The text a client reads off the stream.                                 *)

DeltaLead == "data: {\"type\":\"text-delta\",\"id\":\"text-1\",\"delta\":\""

DeltaTail == "\"}\n\n"

DeltaWire(d) == DeltaLead \o d \o DeltaTail

IsDeltaWire(w) == (Len(w) >= Len(DeltaLead) /\ SubSeq(w, 1, Len(DeltaLead)) = DeltaLead)

DeltaOf(w) == SubSeq(w, Len(DeltaLead) + 1, Len(w) - Len(DeltaTail))

RECURSIVE StreamedText(_)
StreamedText(queue) ==
    IF queue = <<>> THEN ""
    ELSE (IF IsDeltaWire(Head(queue)) THEN DeltaOf(Head(queue)) ELSE "")
         \o StreamedText(Tail(queue))

RECURSIVE TextOf(_)
TextOf(parts) ==
    IF parts = <<>> THEN "" ELSE Head(parts).text \o TextOf(Tail(parts))

IsPrefix(p, t) == \E k \in 0..Len(t) : SubSeq(t, 1, k) = p

Residual(p, t) == CHOOSE r \in {SubSeq(t, k, Len(t)) : k \in 1..(Len(t) + 1)} : p \o r = t

(* What a step added to the stream. *)
Emitted == SubSeq(enqueued', Len(enqueued) + 1, Len(enqueued'))

FragOf(part) == IF "text" \in DOMAIN part THEN part.text ELSE ""

(* C11: processTextDelta follows the rule table, for every accumulator acc *)
(* and fragment frag: an empty frag emits nothing and keeps acc; with acc  *)
(* non-empty and a prefix of frag, the residual is emitted and frag        *)
(* returned, or nothing emitted and acc kept when frag = acc; otherwise    *)
(* frag is emitted verbatim and acc + frag returned; at most one           *)
(* text-delta per call.                                                    *)
C11_RuleTable ==
    [][ received' # received =>
          LET acc == textBuffer
              frag == FragOf(Last(received'))
          IN  /\ Len(Emitted) <= 1
              /\ Len(enqueued') >= Len(enqueued)
              /\ SubSeq(enqueued', 1, Len(enqueued)) = enqueued
              /\ frag = "" => (Emitted = <<>> /\ textBuffer' = acc)
              /\ (frag # "" /\ acc # "" /\ IsPrefix(acc, frag)) =>
                    IF frag = acc
                    THEN Emitted = <<>> /\ textBuffer' = acc
                    ELSE /\ Emitted = <<DeltaWire(Residual(acc, frag))>>
                         /\ textBuffer' = frag
              /\ (frag # "" /\ (acc = "" \/ ~IsPrefix(acc, frag))) =>
                    /\ Emitted = <<DeltaWire(frag)>>
                    /\ textBuffer' = acc \o frag ]_vars

(* Two calls: a fragment that extends the accumulator, then one that does  *)
(* not: the residual and the verbatim fragment are on the stream.          *)
C11_Witness ==
    /\ received = <<[text |-> "Hello World"], [text |-> "Hi"]>>
    /\ textBuffer = "Hello WorldHi"
    /\ enqueued = <<DeltaWire(" World"), DeltaWire("Hi")>>

(* C12, as stated: with accumulator "Hello" and fragment "Hello World" the *)
(* reconciler emits exactly "World" and returns "Hello World".             *)
C12_EmitsWorld ==
    [][ (textBuffer = "Hello" /\ received' = Append(received, [text |-> "Hello World"])) =>
            /\ Emitted = <<DeltaWire("World")>>
            /\ textBuffer' = "Hello World" ]_vars

(* C12, amended: with accumulator "Hello" and fragment "Hello World" the   *)
(* reconciler emits exactly " World", the fragment less the accumulator,   *)
(* its leading space included, and returns "Hello World".                  *)
C12_EmitsSpaceWorld ==
    [][ (textBuffer = "Hello" /\ received' = Append(received, [text |-> "Hello World"])) =>
            /\ Emitted = <<DeltaWire(" World")>>
            /\ textBuffer' = "Hello World" ]_vars

(* The accumulator was "Hello" and the first fragment "Hello World".       *)
C12_Witness ==
    /\ received = <<[text |-> "Hello World"]>>
    /\ textBuffer = "Hello World"
    /\ Len(enqueued) = 1
    /\ enqueued[1] # DeltaWire("Hello World")

(* Each fragment of the turn has the one before it as a prefix.            *)
Cumulative(parts) ==
    \A i \in 2..Len(parts) : IsPrefix(parts[i - 1].text, parts[i].text)

(* C13: for a backend that resends the text accumulated so far, the        *)
(* text-deltas of the turn, concatenated, are the final fragment, and so   *)
(* is the accumulator.                                                     *)
C13_CumulativeReconstruction ==
    (received # <<>> /\ Cumulative(received)) =>
        /\ StreamedText(enqueued) = Last(received).text
        /\ textBuffer = Last(received).text

(* Three fragments of a turn, each extending the one before.               *)
C13_Witness ==
    /\ pc = "done"
    /\ received = <<[text |-> "h"], [text |-> "ha"], [text |-> "haha"]>>

(* C14, as stated: for a backend that sends true increments, the           *)
(* text-deltas of the turn, concatenated, are the fragments concatenated,  *)
(* each once, also when an increment equals or begins with the accumulated *)
(* text.                                                                   *)
C14_IncrementReconstruction ==
    received # <<>> => StreamedText(enqueued) = TextOf(received)

(* The increments "ha", "ha": the stream carries "ha".                     *)
C14_Witness ==
    /\ pc = "done"
    /\ received = <<[text |-> "ha"], [text |-> "ha"]>>
    /\ StreamedText(enqueued) = "ha"
    /\ textBuffer = "ha"

---------------------------------------------------------------------------
(* The request as the client sent it. *)

ListSent(b) == "messages" \in DOMAIN b /\ "array" \in DOMAIN b.messages

AbsentOrEmpty(b) ==
    \/ "messages" \notin DOMAIN b
    \/ ListSent(b) /\ Len(b.messages.array) = 0

NonEmptyList(b) == ListSent(b) /\ Len(b.messages.array) >= 1

InvalidMessagesResponse ==
    [status  |-> 400,
     body    |-> "{\"error\":\"Invalid messages\"}",
     headers |-> [contentType |-> "application/json"]]

NothingStarted ==
    /\ enqueued = <<>>
    /\ closeCount = 0
    /\ turnCount = 0
    /\ modelCalls = 0
    /\ toolRuns = <<>>
    /\ currentContents = <<>>

(* C15: a request whose message list is absent or empty is rejected before *)
(* any streaming: no event is enqueued, not even start, no model turn is   *)
(* run, and the handler returns the structured error response and nothing  *)
(* else.                                                                   *)
C15_InvalidRequestRejected ==
    AbsentOrEmpty(body) =>
        /\ NothingStarted
        /\ pc \in {"idle", "rejected"}
        /\ pc = "idle" => (response = NoResponse /\ ENABLED PostRejected
                                                 /\ ~ENABLED PostAccepted)
        /\ pc = "rejected" => response = InvalidMessagesResponse

(* The request had no messages and got the error response.                 *)
C15_Witness ==
    /\ "messages" \notin DOMAIN body
    /\ pc = "rejected"
    /\ response = InvalidMessagesResponse

(* C16: validateMessages is true exactly for an array with at least one    *)
(* element: false for undefined and for the empty array (and for null and  *)
(* for a value that is no array).                                          *)
C16_ValidateMessages ==
    /\ pc = "idle" =>
          /\ ENABLED PostAccepted <=> NonEmptyList(body)
          /\ ENABLED PostRejected <=> ~NonEmptyList(body)
    /\ pc = "rejected" => ~NonEmptyList(body)
    /\ pc \notin {"idle", "rejected"} => NonEmptyList(body)

(* An empty array was judged invalid. *)
C16_Witness ==
    /\ ListSent(body)
    /\ body.messages.array = <<>>
    /\ pc = "rejected"

Undeclared(t) ==
    /\ "functionDeclarations" \notin DOMAIN t
    /\ "function_declarations" \notin DOMAIN t
    /\ ~t.declaration

NoDeclarationMessage(t) == "Tool " \o t.name \o " does not have a declaration"

(* C17: with a configured tool that is not pre-formatted and has no        *)
(* declaration, formatToolsForGenAI throws 'Tool <name> does not have a    *)
(* declaration' and createStreamingResponse fails with it before any event *)
(* is enqueued, before the model is invoked and before any tool is run.    *)
C17_MissingDeclarationFailsFast ==
    (\E i \in 1..Len(tools) : Undeclared(tools[i])) =>
        /\ NothingStarted
        /\ pc \in {"idle", "rejected", "threw"}
        /\ (pc = "idle" /\ NonEmptyList(body)) => ENABLED PostAccepted
        /\ pc = "threw" =>
              \E i \in 1..Len(tools) :
                  /\ Undeclared(tools[i])
                  /\ response = [threw |-> [isError |-> TRUE,
                                            message |-> NoDeclarationMessage(tools[i])]]

(* A valid request to an agent with a declared and an undeclared tool.     *)
C17_Witness ==
    /\ pc = "threw"
    /\ NonEmptyList(body)
    /\ Len(tools) = 2
    /\ response = [threw |-> [isError |-> TRUE,
                              message |-> "Tool invalidTool does not have a declaration"]]

---------------------------------------------------------------------------
(* The messages the client sent, and what the adapter is to make of them.  *)

Sent == body.messages.array

TextIndexes(parts) == {k \in 1..Len(parts) : parts[k].type = "text"}

(* C18: transformMessagesToContents maps the messages one to one and in    *)
(* order: the i-th content has role 'user' for a message of role 'user'    *)
(* and 'model' for any other, and its parts are the texts of the message's *)
(* text parts in their order, every other part dropped (no text part, no   *)
(* part at all).                                                           *)
C18_TranscriptAdapter ==
    pc = "loop" =>
        /\ Len(initialContents) = Len(Sent)
        /\ \A i \in 1..Len(Sent) :
               LET msg == Sent[i]
                   content == initialContents[i]
                   texts == TextIndexes(msg.parts)
               IN  /\ DOMAIN content = {"role", "parts"}
                   /\ msg.role = "user" => content.role = "user"
                   /\ msg.role # "user" => content.role = "model"
                   /\ Len(content.parts) = Cardinality(texts)
                   /\ \A j \in 1..Len(content.parts) :
                          content.parts[j] = [text |-> msg.parts[Kth(texts, j)].text]

(* A system message without text parts, then a user message with a file    *)
(* before its text.                                                        *)
C18_Witness ==
    /\ pc = "loop"
    /\ Sent = << [role |-> "system", id |-> "1",
                  parts |-> <<[type |-> "file", url |-> "f"]>>],
                 [role |-> "user", id |-> "1",
                  parts |-> <<[type |-> "file", url |-> "f"],
                              [type |-> "text", text |-> "Yo"]>>] >>
    /\ initialContents = << [role |-> "model", parts |-> <<>>],
                            [role |-> "user", parts |-> <<[text |-> "Yo"]>>] >>

---------------------------------------------------------------------------
(* The history. *)

Started == pc \in {"loop", "streaming", "tools", "done"}

(* The tool-calling turns completed so far, by the position of the loop.   *)
CompletedBatches ==
    IF pc = "loop" THEN turnCount
    ELSE IF pc = "done" /\ failure = NoError /\ functionCalls # <<>> THEN turnCount
    ELSE turnCount - 1

NonNullSlots == {i \in 1..Len(toolPromises) : "null" \notin DOMAIN toolPromises[i].value}

ModelEntryPushed ==
    /\ pc = "streaming"
    /\ functionCalls # <<>>
    /\ currentContents' =
           currentContents \o <<[role |-> "model", parts |-> functionCalls]>>

ToolEntryPushed ==
    /\ pc = "tools"
    /\ Last(currentContents).role = "model"
    /\ Len(currentContents') = Len(currentContents) + 1
    /\ SubSeq(currentContents', 1, Len(currentContents)) = currentContents
    /\ Last(currentContents').role = "tool"
    /\ Len(Last(currentContents').parts) = Cardinality(NonNullSlots)
    /\ \A j \in 1..Cardinality(NonNullSlots) :
           Last(currentContents').parts[j] = toolPromises[Kth(NonNullSlots, j)].value

Seeded ==
    /\ pc = "idle"
    /\ currentContents = <<>>
    /\ currentContents' = initialContents'

(* C19: the history is append-only.  It is the adapted client messages     *)
(* followed, for each completed tool-calling turn in order, by a model     *)
(* entry with that turn's calls in arrival order and a tool entry with the *)
(* batch's results; no entry is modified, moved or removed; a turn without *)
(* calls appends nothing; after k tool-calling turns its length is the     *)
(* initial length plus 2k.                                                 *)
C19_HistoryAppendOnly ==
    /\ [](Started =>
            /\ SubSeq(currentContents, 1, Len(initialContents)) = initialContents
            /\ Len(currentContents) =
                   Len(initialContents) + 2 * CompletedBatches
                       + (IF pc = "tools" THEN 1 ELSE 0)
            /\ \A h \in 1..Len(Appended) :
                   Appended[h].role = IF h % 2 = 1 THEN "model" ELSE "tool")
    /\ [][ /\ \/ currentContents' = currentContents
              \/ Seeded
              \/ ModelEntryPushed
              \/ ToolEntryPushed
           /\ (pc = "streaming" /\ pc' = "streaming") =>
                  /\ Len(functionCalls') >= Len(functionCalls)
                  /\ SubSeq(functionCalls', 1, Len(functionCalls)) = functionCalls
           /\ (pc = "streaming" /\ pc' # "streaming" /\ functionCalls = <<>>) =>
                  currentContents' = currentContents ]_vars

(* A run of three turns, two of them with calls, on a history seeded with  *)
(* two client messages: four entries were appended.                        *)
C19_Witness ==
    /\ EndedNormally
    /\ Len(initialContents) = 2
    /\ turnCount = 3
    /\ Len(currentContents) = 6
    /\ currentContents[4].role = "tool"

IsResult(part) == "functionResponse" \in DOMAIN part

NamedCallsOf(entry) ==
    {i \in 1..Len(entry.parts) :
        /\ "functionCall" \in DOMAIN entry.parts[i]
        /\ "undefined" \notin DOMAIN entry.parts[i].functionCall
        /\ "name" \in DOMAIN entry.parts[i].functionCall
        /\ entry.parts[i].functionCall.name # ""}

(* C20: in every history of the loop a tool entry holds only tool-result   *)
(* parts, a model entry holds none, and a tool entry comes right after the *)
(* model entry with the calls it answers.                                  *)
C20_RolesAndParts ==
    \A h \in 1..Len(currentContents) :
        LET entry == currentContents[h]
        IN  /\ entry.role = "model" =>
                  \A k \in 1..Len(entry.parts) : ~IsResult(entry.parts[k])
            /\ entry.role = "tool" =>
                  /\ \A k \in 1..Len(entry.parts) : DOMAIN entry.parts[k] = {"functionResponse"}
                  /\ h > Len(initialContents) + 1
                  /\ currentContents[h - 1].role = "model"
                  /\ \A k \in 1..Len(currentContents[h - 1].parts) :
                         "functionCall" \in DOMAIN currentContents[h - 1].parts[k]
                  /\ Len(entry.parts) = Cardinality(NamedCallsOf(currentContents[h - 1]))
                  /\ \A k \in 1..Len(entry.parts) :
                         entry.parts[k].functionResponse.name =
                             currentContents[h - 1]
                                 .parts[Kth(NamedCallsOf(currentContents[h - 1]), k)]
                                 .functionCall.name

(* A history with two tool entries, the first answering two calls.         *)
C20_Witness ==
    /\ Len(Appended) >= 4
    /\ Appended[4].role = "tool"
    /\ Len(Appended[2].parts) = 2
    /\ Len(Appended[1].parts) = 2

---------------------------------------------------------------------------
(* Failure, single flight, silence of the tools.                           *)

(* C24: a failure of the backend is fatal and is not retried: the step in  *)
(* which a model turn raises ends the request with that very error given   *)
(* to the catch block, and from then on the model is not invoked, no tool  *)
(* is run and nothing is appended to the history.                          *)
C24_BackendFailureFatal ==
    /\ [](failure # NoError => pc = "done" /\ failure \in BackendErrors)
    /\ [][ failure' # NoError =>
             /\ toolRuns' = toolRuns
             /\ toolPromises' = toolPromises
             /\ currentContents' = currentContents
             /\ failure # NoError => (modelCalls' = modelCalls /\ enqueued' = enqueued)
             /\ failure = NoError =>
                    /\ pc \in {"loop", "streaming"}
                    /\ modelCalls' = (IF pc = "loop" THEN modelCalls + 1 ELSE modelCalls)
                    /\ enqueued' = catchEnd(enqueued, failure') ]_vars

(* The backend failed in a later turn, after a batch of tools, with turns  *)
(* of the budget left.                                                     *)
C24_Witness ==
    /\ failure # NoError
    /\ Len(toolRuns) > 0
    /\ turnCount \in 2..(MAX_TURNS - 1)
    /\ Len(currentContents) = Len(initialContents) + 2 * (turnCount - 1)

(* C27: the loop is single-flight: the model is invoked one turn at a      *)
(* time, only from the loop's condition, that is when the stream of the    *)
(* turn before is exhausted and its batch of tools, if any, has settled    *)
(* and is in the history; while a turn streams no tool is unsettled.       *)
C27_SingleFlight ==
    /\ [](pc = "streaming" => (allSettled(toolPromises) /\ modelCalls = turnCount))
    /\ [][ modelCalls' # modelCalls =>
             /\ modelCalls' = modelCalls + 1
             /\ pc = "loop"
             /\ allSettled(toolPromises)
             /\ Len(currentContents) = Len(initialContents) + 2 * modelCalls ]_vars

(* The third turn streams, after two batches, the last of two tools.       *)
C27_Witness ==
    /\ pc = "streaming"
    /\ modelCalls = 3
    /\ Len(toolPromises) = 2
    /\ Len(toolRuns) >= 3

(* C28: running the tools writes nothing to the stream, whatever they do:  *)
(* no step that starts, settles or joins tools enqueues anything, and a    *)
(* text-delta is enqueued only by a step of a streaming turn that handed   *)
(* model text to the reconciler, or as the one error delta of the step in  *)
(* which the backend failed.                                               *)
C28_ToolsSilent ==
    [][ /\ (pc = "tools" \/ toolRuns' # toolRuns \/ toolPromises' # toolPromises
                \/ outcomes' # outcomes)
              => enqueued' = enqueued
        /\ \A k \in (Len(enqueued) + 1)..Len(enqueued') :
               IsDeltaWire(enqueued'[k]) =>
                   \/ /\ pc = "streaming"
                      /\ pc' = "streaming"
                      /\ Len(received') > Len(received)
                      /\ ~IsErrorDelta(enqueued'[k])
                   \/ /\ failure = NoError
                      /\ failure' \in BackendErrors
                      /\ k = Len(enqueued) + 1
                      /\ enqueued'[k] = encodeSSEChunk(ErrorDelta(failure')) ]_vars

(* A request that ended normally after a tool threw and another returned.  *)
C28_Witness ==
    /\ pc = "done"
    /\ failure = NoError
    /\ \E i \in 1..Len(outcomes) : Failed(i)
    /\ \E i \in 1..Len(outcomes) : outcomes[i] # Pending /\ ~Failed(i)
    /\ \A k \in 1..Len(enqueued) : ~IsErrorDelta(enqueued[k])

---------------------------------------------------------------------------
(* createErrorResponse, called on its own.                                 *)

(* A request that has not started: no response, nothing run or enqueued.   *)
NotStarted ==
    /\ response = NoResponse
    /\ pc = "idle"
    /\ initialContents = <<>>
    /\ currentContents = <<>>
    /\ turnCount = 0
    /\ functionCalls = <<>>
    /\ textBuffer = ""
    /\ received = <<>>
    /\ yielded = <<>>
    /\ effects = <<>>
    /\ toolPromises = <<>>
    /\ outcomes = <<>>
    /\ settleOrder = <<>>
    /\ enqueued = <<>>
    /\ closeCount = 0
    /\ modelCalls = 0
    /\ toolRuns = <<>>
    /\ failure = NoError

ErrorMessages == {"Error message", "Invalid messages", ""}

ErrorStatuses == {400, 401, 404, 500, 503}

ErrorDetails == {Undefined, Null, StringOf(""), StringOf("Details"), StringOf("timeout")}

ErrorResponseInit ==
    /\ body \in [message : ErrorMessages, status : ErrorStatuses, details : ErrorDetails]
    /\ NotStarted
    /\ peer = NoPeer
    /\ ollama = NoOllama
    /\ mockLlm = NoMockLlm
    /\ tools = <<MockTool>>
    /\ formattedTools = <<>>
    /\ credit = [calls |-> 0, extras |-> 0]

(* GenAIAgentService.createErrorResponse(message, status, details)         *)
CreateErrorResponse ==
    /\ pc = "idle"
    /\ pc' = "done"
    /\ response' = createErrorResponse(body.message, body.status, body.details)
    /\ UNCHANGED <<peer, ollama, mockLlm, body, tools, formattedTools, initialContents, currentContents, turnCount,
                   functionCalls, textBuffer, received, yielded, effects, toolPromises,
                   outcomes, settleOrder, enqueued, closeCount, modelCalls, toolRuns,
                   failure, credit>>

ErrorResponseNext == CreateErrorResponse

ErrorResponseSpec == ErrorResponseInit /\ [][ErrorResponseNext]_vars

(* A details string was supplied, and it is not empty. *)
DetailsSupplied == "string" \in DOMAIN body.details /\ body.details.string # ""

(* C29: createErrorResponse(message, status, details) returns a response   *)
(* with the given status and, as JSON, the body {error: message}, to which *)
(* details is added exactly when a non-empty details string was supplied;  *)
(* it enqueues no stream event.                                            *)
C29_ErrorResponse ==
    pc = "done" =>
        /\ response.status = body.status
        /\ response.headers.contentType = "application/json"
        /\ response.body =
               IF DetailsSupplied
               THEN "{\"error\":\"" \o body.message \o "\",\"details\":\""
                        \o body.details.string \o "\"}"
               ELSE "{\"error\":\"" \o body.message \o "\"}"
        /\ enqueued = <<>>
        /\ closeCount = 0
        /\ modelCalls = 0

(* Called with an empty details string: the body has the error only.       *)
C29_Witness ==
    /\ pc = "done"
    /\ body.details = StringOf("")
    /\ body.status = 500
    /\ response.body = "{\"error\":\"Error message\"}"

---------------------------------------------------------------------------
(* OllamaModel.convertToOllamaMessages                                     *)

MaxParts == 2

(* content.role === 'model' ? 'assistant' : (content.role ?? 'user')       *)
roleOf(content) ==
    IF "role" \notin DOMAIN content THEN "user"
    ELSE IF content.role = "model" THEN "assistant" ELSE content.role

(* content.parts || [] *)
contentParts(content) == IF "parts" \in DOMAIN content THEN content.parts ELSE <<>>

(* parts.filter(p => key in p) *)
withKey(parts, key) == SelectSeq(parts, LAMBDA p : key \in DOMAIN p)

(* texts.join(sep) *)
RECURSIVE join(_, _)
join(texts, sep) ==
    IF texts = <<>> THEN ""
    ELSE IF Len(texts) = 1 THEN texts[1]
    ELSE texts[1] \o sep \o join(Tail(texts), sep)

(* JSON.stringify of an object with one member, a string or (success) a    *)
(* boolean.                                                                *)
stringifyObject(o) ==
    LET k == CHOOSE key \in DOMAIN o : TRUE
    IN  IF k = "success"
        THEN "{" \o Quote(k) \o ":" \o (IF o[k] THEN "true" ELSE "false") \o "}"
        ELSE "{" \o Member(k, o[k]) \o "}"

(* JSON.stringify of a response object: { name, content } as the service   *)
(* builds it, members in insertion order, or an object with one member.    *)
stringifyResponse(r) ==
    IF DOMAIN r = {"name", "content"}
    THEN "{" \o Member("name", r.name) \o "," \o Quote("content") \o ":"
             \o stringifyObject(r.content) \o "}"
    ELSE stringifyObject(r)

(* Variant: the messages of a tool response keep the role of the content.  *)
convertContentOwnRole(content) ==
    LET parts == contentParts(content)
        toolCallParts == withKey(parts, "functionCall")
        functionResponseParts == withKey(parts, "functionResponse")
        textParts == join([k \in 1..Len(withKey(parts, "text")) |->
                              withKey(parts, "text")[k].text], "\n")
        message ==
            IF Len(toolCallParts) > 0
            THEN [role |-> roleOf(content), content |-> textParts,
                  tool_calls |-> [k \in 1..Len(toolCallParts) |->
                      [function |-> [name |-> toolCallParts[k].functionCall.name,
                                     arguments |-> toolCallParts[k].functionCall.args]]]]
            ELSE [role |-> roleOf(content), content |-> textParts]
    IN  IF Len(functionResponseParts) > 0
        THEN [k \in 1..Len(functionResponseParts) |->
                 [role |-> roleOf(content),
                  content |-> stringifyResponse(
                                  functionResponseParts[k].functionResponse.response)]]
        ELSE IF message.content # "" \/ "tool_calls" \in DOMAIN message
             THEN <<message>> ELSE <<>>

(* The callback of contents.flatMap: the messages one content becomes.     *)
convertContent(content) ==
    LET parts == contentParts(content)
        toolCallParts == withKey(parts, "functionCall")
        functionResponseParts == withKey(parts, "functionResponse")
        textParts == join([k \in 1..Len(withKey(parts, "text")) |->
                              withKey(parts, "text")[k].text], "\n")
        message ==
            IF Len(toolCallParts) > 0
            THEN [role |-> roleOf(content), content |-> textParts,
                  tool_calls |-> [k \in 1..Len(toolCallParts) |->
                      [function |-> [name |-> toolCallParts[k].functionCall.name,
                                     arguments |-> toolCallParts[k].functionCall.args]]]]
            ELSE [role |-> roleOf(content), content |-> textParts]
    IN  IF Len(functionResponseParts) > 0
        THEN [k \in 1..Len(functionResponseParts) |->
                 [role |-> "tool",
                  content |-> stringifyResponse(
                                  functionResponseParts[k].functionResponse.response)]]
        ELSE IF message.content # "" \/ "tool_calls" \in DOMAIN message
             THEN <<message>> ELSE <<>>

(* contents.flatMap(...) *)
RECURSIVE convertToOllamaMessages(_)
convertToOllamaMessages(contents) ==
    IF contents = <<>> THEN <<>>
    ELSE convertContent(Head(contents)) \o convertToOllamaMessages(Tail(contents))

(* The parts of the contents given to the converter. *)
OllamaParts ==
    { [text |-> "Weather?"], [text |-> ""], [text |-> "Now"],
      [functionCall |-> [name |-> "get_weather", args |-> [city |-> "Paris"]]],
      [functionCall |-> [name |-> "get_time", args |-> [zone |-> "UTC"]]],
      [functionResponse |-> [name |-> "get_weather", response |-> [weather |-> "sunny"]]],
      [functionResponse |-> [name |-> "test_tool", response |-> [status |-> "success"]]] }

RECURSIVE PartListsUpTo(_)
PartListsUpTo(n) ==
    IF n = 0 THEN {<<>>}
    ELSE PartListsUpTo(n - 1)
            \cup {Append(l, p) : l \in {k \in PartListsUpTo(n - 1) : Len(k) = n - 1},
                                 p \in OllamaParts}

OllamaRoles == {"user", "model", "tool", "function"}

OllamaContents ==
    {[role |-> r, parts |-> l] : r \in OllamaRoles, l \in PartListsUpTo(MaxParts)}
        \cup {[parts |-> l] : l \in PartListsUpTo(MaxParts)}
        \cup {[role |-> r] : r \in OllamaRoles}

(* The contents of the conversations of the tests. *)
TestContents ==
    { [role |-> "user", parts |-> <<[text |-> "Weather?"]>>],
      [role |-> "model",
       parts |-> <<[functionCall |-> [name |-> "get_weather", args |-> [city |-> "Paris"]]]>>],
      [role |-> "tool",
       parts |-> <<[functionResponse |->
                       [name |-> "get_weather", response |-> [weather |-> "sunny"]]]>>],
      [role |-> "function",
       parts |-> <<[functionResponse |->
                       [name |-> "test_tool", response |-> [status |-> "success"]]]>>],
      [role |-> "model", parts |-> <<[text |-> ""]>>],
      [role |-> "model", parts |-> <<[text |-> "Now"], [text |-> "Weather?"]>>] }

Conversations ==
    {<<>>} \cup {<<c>> : c \in OllamaContents}
           \cup {<<c, d>> : c, d \in TestContents}
           \cup {<<c, d, e>> : c, d, e \in TestContents}

OllamaInit ==
    /\ ollama \in {[contents |-> c, called |-> FALSE, messages |-> <<>>] : c \in Conversations}
    /\ mockLlm = NoMockLlm
    /\ body = [prompt |-> "Hello"]
    /\ NotStarted
    /\ peer = NoPeer
    /\ tools = <<MockTool>>
    /\ formattedTools = <<>>
    /\ credit = [calls |-> 0, extras |-> 0]

(* messages: this.convertToOllamaMessages(llmRequest.contents)             *)
ConvertToOllamaMessages ==
    /\ ~ollama.called
    /\ ollama' = [ollama EXCEPT !.called = TRUE,
                                !.messages = convertToOllamaMessages(ollama.contents)]
    /\ UNCHANGED <<peer, mockLlm, body, response, pc, tools, formattedTools, initialContents, currentContents,
                   turnCount, functionCalls, textBuffer, received, yielded, effects,
                   toolPromises, outcomes, settleOrder, enqueued, closeCount, modelCalls,
                   toolRuns, failure, credit>>

OllamaNext == ConvertToOllamaMessages

OllamaSpec == OllamaInit /\ [][OllamaNext]_vars

(* The parts of a content that have the key, by index. *)
Having(content, key) ==
    {k \in 1..Len(contentParts(content)) : key \in DOMAIN contentParts(content)[k]}

(* The texts of a content, one line each. *)
RECURSIVE Lines(_, _)
Lines(content, k) ==
    IF k = 0 THEN ""
    ELSE IF k \notin Having(content, "text") THEN Lines(content, k - 1)
    ELSE IF \E j \in Having(content, "text") : j < k
         THEN Lines(content, k - 1) \o "\n" \o contentParts(content)[k].text
         ELSE contentParts(content)[k].text

(* How many messages a content is to become. *)
Expected(content) ==
    IF Having(content, "functionResponse") # {}
    THEN Cardinality(Having(content, "functionResponse"))
    ELSE IF Lines(content, Len(contentParts(content))) # ""
            \/ Having(content, "functionCall") # {}
         THEN 1 ELSE 0

RECURSIVE Offset(_, _)
Offset(contents, i) ==
    IF i = 1 THEN 0 ELSE Offset(contents, i - 1) + Expected(contents[i - 1])

JSONOf(r) ==
    IF r = [weather |-> "sunny"] THEN "{\"weather\":\"sunny\"}"
    ELSE "{\"status\":\"success\"}"

(* C30: convertToOllamaMessages converts the contents in order.  A content *)
(* with functionResponse parts becomes one message of role 'tool' per such *)
(* part, in part order, its content the JSON of the response, whatever the *)
(* role of the content, its texts and calls dropped.  Any other content    *)
(* becomes at most one message: role 'assistant' for 'model', 'user' for   *)
(* none, the content's role otherwise; content the texts joined by         *)
(* newline; tool_calls the functionCall parts in order, when there are     *)
(* any.  A content with no text and no call becomes no message.            *)
C30_ConvertToOllamaMessages ==
    ("called" \in DOMAIN ollama /\ ollama.called) =>
        LET cs == ollama.contents
            ms == ollama.messages
        IN  /\ Len(ms) = Offset(cs, Len(cs) + 1)
            /\ \A i \in 1..Len(cs) :
                 LET c == cs[i]
                     at == Offset(cs, i)
                     rs == Having(c, "functionResponse")
                     fs == Having(c, "functionCall")
                 IN  IF rs # {}
                     THEN \A k \in 1..Cardinality(rs) :
                            /\ DOMAIN ms[at + k] = {"role", "content"}
                            /\ ms[at + k].role = "tool"
                            /\ ms[at + k].content =
                                   JSONOf(contentParts(c)[Kth(rs, k)].functionResponse.response)
                     ELSE Expected(c) = 1 =>
                            /\ ms[at + 1].role =
                                   (IF "role" \notin DOMAIN c THEN "user"
                                    ELSE IF c.role = "model" THEN "assistant" ELSE c.role)
                            /\ ms[at + 1].content = Lines(c, Len(contentParts(c)))
                            /\ ("tool_calls" \in DOMAIN ms[at + 1]) = (fs # {})
                            /\ fs # {} =>
                                 /\ Len(ms[at + 1].tool_calls) = Cardinality(fs)
                                 /\ \A k \in 1..Cardinality(fs) :
                                      ms[at + 1].tool_calls[k] =
                                          [function |->
                                              [name |-> contentParts(c)[Kth(fs, k)].functionCall.name,
                                               arguments |-> contentParts(c)[Kth(fs, k)].functionCall.args]]

(* The conversation of the test: a question, the model's call, the tool's  *)
(* response, converted to user, assistant with tool_calls, tool.           *)
C30_Witness ==
    /\ "called" \in DOMAIN ollama
    /\ ollama.called
    /\ Len(ollama.contents) = 3
    /\ ollama.contents[3].role = "function"
    /\ Len(ollama.messages) = 3
    /\ ollama.messages[1] = [role |-> "user", content |-> "Weather?"]
    /\ ollama.messages[2].role = "assistant"
    /\ ollama.messages[2].content = ""
    /\ ollama.messages[3] = [role |-> "tool", content |-> "{\"status\":\"success\"}"]

---------------------------------------------------------------------------
(* Several turns with text and calls.                                      *)

(* A part with text and a call. *)
TalkingCall == [text |-> "h", functionCall |-> MockCall.functionCall]

StreamChunks ==
    { ChunkOf(<<[text |-> "h"]>>), ChunkOf(<<[text |-> "ha"]>>),
      ChunkOf(<<[text |-> "h"], [text |-> "ha"]>>),
      ChunkOf(<<MockCall>>),
      ChunkOf(<<[text |-> "h"], MockCall>>),
      ChunkOf(<<MockCall, [text |-> "h"]>>),
      ChunkOf(<<TalkingCall>>) }

StreamInit ==
    /\ body = [messages |-> ArrayOf(<<[role |-> "user", id |-> "1",
                                       parts |-> <<[type |-> "text", text |-> "Hello"]>>]>>)]
    /\ NotStarted
    /\ peer = NoPeer
    /\ ollama = NoOllama
    /\ mockLlm = NoMockLlm
    /\ tools = <<MockTool>>
    /\ formattedTools = <<>>
    /\ credit = [calls |-> MaxBatch, extras |-> MaxFragments]

StreamNext ==
    \/ PostAccepted
    \/ InvokeModel
    \/ \E chunk \in StreamChunks : BackendChunk(chunk)
    \/ BackendEnd
    \/ \E i \in 1..Len(toolPromises), v \in ToolValues : ToolSettles(i, Returned(v))
    \/ BatchJoin

StreamSpec == StreamInit /\ [][StreamNext]_vars

(* The text-deltas owed for the texts, in order, from the accumulator buf. *)
RECURSIVE Owed(_, _)
Owed(texts, buf) ==
    IF texts = <<>> THEN <<>>
    ELSE LET t == Head(texts).text
             d == IF buf # "" /\ IsPrefix(buf, t) THEN Residual(buf, t) ELSE t
         IN  (IF d = "" THEN <<>> ELSE <<DeltaWire(d)>>) \o Owed(Tail(texts), buf \o d)

(* The chunk a step consumed, when it carried text or a call.              *)
Consumed == Len(yielded') = Len(yielded) + 1

ConsumedParts == PartsOf(Last(yielded'))

(* What the log says was enqueued, in the order of the log. *)
EnqueuedBy(log) ==
    LET es == SelectSeq(log, LAMBDA e : "enqueue" \in DOMAIN e)
    IN  [k \in 1..Len(es) |-> es[k].enqueue]

(* C21: text-deltas go out in the order of the backend's fragments and are *)
(* not buffered: the deltas of a chunk are enqueued, part by part, in the  *)
(* step that consumes the chunk; the queue only grows at its end; all the  *)
(* deltas owed for the text of a turn are on the queue while the turn      *)
(* streams and when its tools are invoked, and nothing is enqueued between *)
(* the end of a turn's stream and the start of the next turn.              *)
C21_InOrderUnbuffered ==
    /\ [](pc \in {"streaming", "tools"} =>
            LET o == Owed(received, "")
            IN  /\ Len(o) <= Len(enqueued)
                /\ SubSeq(enqueued, Len(enqueued) - Len(o) + 1, Len(enqueued)) = o)
    /\ [][ /\ Len(enqueued') >= Len(enqueued)
           /\ SubSeq(enqueued', 1, Len(enqueued)) = enqueued
           /\ Consumed =>
                 /\ Emitted = Owed(handed(ConsumedParts), textBuffer)
                 /\ EnqueuedBy(effects') = Emitted
           /\ (pc = "tools" \/ toolRuns' # toolRuns \/ turnCount' # turnCount) =>
                 Emitted = <<>>
           /\ (\E k \in 1..Len(Emitted) : IsDeltaWire(Emitted[k])) =>
                 (pc = "streaming" /\ pc' = "streaming" /\ Consumed) ]_vars

(* Text in two turns with a tool between them, the second turn having      *)
(* consumed a chunk of two text parts.                                     *)
C21_Witness ==
    /\ turnCount = 2
    /\ pc = "streaming"
    /\ Len(toolRuns) = 1
    /\ yielded = <<ChunkOf(<<[text |-> "h"], [text |-> "ha"]>>)>>
    /\ Len(enqueued) = 6
    /\ SubSeq(enqueued, 4, 6) = <<DeltaWire("ha"), DeltaWire("h"), DeltaWire("a")>>

(* The parts with a call, in order. *)
CallsOf(parts) == SelectSeq(parts, LAMBDA p : "functionCall" \in DOMAIN p)

RECURSIVE CallsIn(_)
CallsIn(chunks) ==
    IF chunks = <<>> THEN <<>>
    ELSE CallsOf(PartsOf(Head(chunks))) \o CallsIn(Tail(chunks))

(* What is to happen for the parts, in order: for each part the delta owed *)
(* for its text, then its call.                                            *)
RECURSIVE Program(_, _)
Program(parts, buf) ==
    IF parts = <<>> THEN <<>>
    ELSE LET p == Head(parts)
             o == IF "text" \in DOMAIN p /\ p.text # "" THEN Owed(<<p>>, buf) ELSE <<>>
             b == IF o = <<>> THEN buf ELSE buf \o DeltaOf(o[1])
         IN  [k \in 1..Len(o) |-> [enqueue |-> o[k]]]
                 \o (IF "functionCall" \in DOMAIN p THEN <<[push |-> p]>> ELSE <<>>)
                 \o Program(Tail(parts), b)

C23_AccumulatorPerTurn ==
    /\ []((pc = "streaming" /\ received = <<>>) => textBuffer = "")
    /\ [][ /\ modelCalls' # modelCalls => (textBuffer' = "" /\ received' = <<>>)
           /\ (Consumed /\ received = <<>> /\ handed(ConsumedParts) # <<>>) =>
                 /\ Emitted # <<>>
                 /\ Emitted[1] = DeltaWire(Head(handed(ConsumedParts)).text)
                 /\ IsPrefix(Head(handed(ConsumedParts)).text, textBuffer') ]_vars

(* The second turn got "ha" after the first turn had got "h": both are on  *)
(* the stream in full.                                                     *)
C23_Witness ==
    /\ turnCount = 2
    /\ pc = "streaming"
    /\ received = <<[text |-> "ha"]>>
    /\ textBuffer = "ha"
    /\ SubSeq(enqueued, 4, Len(enqueued)) = <<DeltaWire("h"), DeltaWire("ha")>>

---------------------------------------------------------------------------
(* The client cancels the stream.  The ReadableStream is built with a      *)
(* start callback only: nothing tells the loop of the cancellation, and    *)
(* controller.enqueue and controller.close throw once the stream is        *)
(* closed.                                                                 *)

Cancelled == "cancelledAt" \in DOMAIN response

(* The TypeError of controller.enqueue on a closed stream. *)
ClosedController == ErrorObject("Invalid state: Controller is already closed")

(* The client cancels while the loop awaits the next chunk or the batch of *)
(* tools; where the loop was is kept with the response.                    *)
Cancel ==
    /\ pc \in {"streaming", "tools"}
    /\ ~Cancelled
    /\ response' = [status      |-> response.status,
                    body        |-> "cancelled",
                    headers     |-> response.headers,
                    cancelledAt |-> [turn |-> turnCount, chunks |-> Len(yielded)]]
    /\ UNCHANGED <<peer, ollama, mockLlm, body, pc, tools, formattedTools, initialContents, currentContents,
                   turnCount, functionCalls, textBuffer, received, yielded, effects,
                   toolPromises, outcomes, settleOrder, enqueued, closeCount, modelCalls,
                   toolRuns, failure, credit>>

(* controller.enqueue throws in the try block; the catch block enqueues    *)
(* the error delta, which throws again: the start callback rejects.        *)
EnqueueThrows ==
    /\ Cancelled
    /\ pc' = "aborted"
    /\ failure' = ClosedController
    /\ UNCHANGED <<peer, ollama, mockLlm, body, response, tools, formattedTools, initialContents, currentContents,
                   turnCount, functionCalls, textBuffer, received, yielded, effects,
                   toolPromises, outcomes, settleOrder, enqueued, closeCount, modelCalls,
                   toolRuns, credit>>

(* A chunk whose text gives a delta to enqueue. *)
ChunkAborts(chunk) ==
    /\ pc = "streaming"
    /\ Cost(chunk) <= credit.extras
    /\ processChunk(chunk, [textBuffer |-> textBuffer, queue |-> enqueued,
                            functionCalls |-> functionCalls, effects |-> <<>>]).queue
           # enqueued
    /\ EnqueueThrows

(* The turn ends without calls: sendEndEvents. *)
EndAborts ==
    /\ pc = "streaming"
    /\ ~hasFunctionCalls(functionCalls)
    /\ EnqueueThrows

(* The turns are used up: sendEndEvents. *)
ExhaustedAborts ==
    /\ pc = "loop"
    /\ ~mayTakeTurn(turnCount)
    /\ EnqueueThrows

CancelChunks == {ChunkOf(<<MockCall>>), ChunkOf(<<[text |-> "h"]>>)}

CancelInit ==
    /\ body = [messages |-> ArrayOf(<<[role |-> "user", id |-> "1",
                                       parts |-> <<[type |-> "text", text |-> "Hello"]>>]>>)]
    /\ NotStarted
    /\ peer = NoPeer
    /\ ollama = NoOllama
    /\ mockLlm = NoMockLlm
    /\ tools = <<MockTool>>
    /\ formattedTools = <<>>
    /\ credit = [calls |-> MaxCalls, extras |-> MaxExtras]

CancelNext ==
    \/ PostAccepted
    \/ Cancel
    \/ InvokeModel
    \/ \E chunk \in CancelChunks : BackendChunk(chunk) /\ (Cancelled => enqueued' = enqueued)
    \/ \E chunk \in CancelChunks : ChunkAborts(chunk)
    \/ BackendEnd /\ (Cancelled => pc' = "tools")
    \/ EndAborts
    \/ \E i \in 1..Len(toolPromises), v \in ToolValues : ToolSettles(i, Returned(v))
    \/ BatchJoin
    \/ LoopExhausted /\ ~Cancelled
    \/ ExhaustedAborts

CancelSpec == CancelInit /\ [][CancelNext]_vars

(* C25, as stated: once the client has cancelled, the work is abandoned at *)
(* the next suspension point: no chunk of the backend is consumed but the  *)
(* one that was awaited, no model turn is started and no tool is invoked.  *)
C25_AbandonedOnCancel ==
    [][ Cancelled =>
          /\ modelCalls' = modelCalls
          /\ toolRuns' = toolRuns
          /\ Len(yielded') > Len(yielded) =>
                 /\ turnCount = response.cancelledAt.turn
                 /\ Len(yielded) = response.cancelledAt.chunks ]_vars

(* Cancelled in the first turn, the loop went on to consume chunks, run a  *)
(* tool and invoke the model for a second and a third turn.                *)
C25_Witness ==
    /\ Cancelled
    /\ response.cancelledAt.turn = 1
    /\ modelCalls = 3
    /\ Len(toolRuns) >= 2

---------------------------------------------------------------------------
(* Two requests in flight on one service.  The second has its own locals   *)
(* (currentContents, turnCount, functionCalls, textBuffer), its own stream *)
(* and promises; it is given its backend's chunks and its tools' outcomes, *)
(* which it writes down.  The first request is then given the same chunks  *)
(* and outcomes, at its own pace.                                          *)

(* Variant: one accumulator for the service, used by both requests.        *)
sharedBuffer == textBuffer

(* let textBuffer = '' of the second request's streamTurn *)
peerBuffer == peer.textBuffer

PeerIdle ==
    [pc |-> "idle", currentContents |-> <<>>, turnCount |-> 0, functionCalls |-> <<>>,
     textBuffer |-> "", toolPromises |-> <<>>, settleOrder |-> <<>>, enqueued |-> <<>>,
     script |-> <<>>, credit |-> [calls |-> MaxBatch, extras |-> MaxDeltas]]

PairChunks ==
    { ChunkOf(<<[text |-> "h"]>>), ChunkOf(<<[text |-> "ha"]>>), ChunkOf(<<MockCall>>),
      ChunkOf(<<[text |-> "h"], MockCall>>) }

PairInit ==
    /\ body = [messages |-> ArrayOf(<<[role |-> "user", id |-> "1",
                                       parts |-> <<[type |-> "text", text |-> "Hello"]>>]>>)]
    /\ NotStarted
    /\ peer = PeerIdle
    /\ ollama = NoOllama
    /\ mockLlm = NoMockLlm
    /\ tools = <<MockTool>>
    /\ formattedTools = <<>>
    /\ credit = [calls |-> MaxBatch, extras |-> MaxDeltas]

(* The first request's variables, which the second request does not have.  *)
ownVars == <<ollama, mockLlm, body, response, pc, tools, formattedTools, initialContents, currentContents,
             turnCount, functionCalls, textBuffer, received, yielded, effects,
             toolPromises, outcomes, settleOrder, enqueued, closeCount, modelCalls,
             toolRuns, failure, credit>>

(* createStreamingResponse for the second request. *)
PeerStart ==
    /\ peer.pc = "idle"
    /\ peer' = [peer EXCEPT !.pc = "loop",
                            !.currentContents =
                                transformMessagesToContents(messagesOf(body).array),
                            !.enqueued = sendStartEvents(<<>>)]
    /\ UNCHANGED ownVars

PeerInvokeModel ==
    /\ peer.pc = "loop"
    /\ mayTakeTurn(peer.turnCount)
    /\ peer' = [peer EXCEPT !.pc = "streaming",
                            !.turnCount = @ + 1,
                            !.functionCalls = <<>>,
                            !.textBuffer = "",
                            !.script = Append(@, [chunks |-> <<>>, outcomes |-> <<>>])]
    /\ UNCHANGED ownVars

PeerChunk(chunk) ==
    /\ peer.pc = "streaming"
    /\ Cost(chunk) <= peer.credit.extras
    /\ CallCount(chunk) <= peer.credit.calls
    /\ LET st == processChunk(chunk, [textBuffer |-> peerBuffer,
                                      queue |-> peer.enqueued,
                                      functionCalls |-> peer.functionCalls,
                                      effects |-> <<>>])
       IN  peer' = [peer EXCEPT !.textBuffer = st.textBuffer,
                                !.enqueued = st.queue,
                                !.functionCalls = st.functionCalls,
                                !.script[Len(peer.script)].chunks = Append(@, chunk),
                                !.credit = [calls |-> @.calls - CallCount(chunk),
                                            extras |-> @.extras - Cost(chunk)]]
    /\ UNCHANGED ownVars

PeerEnd ==
    /\ peer.pc = "streaming"
    /\ peer' = IF hasFunctionCalls(peer.functionCalls)
               THEN [peer EXCEPT
                        !.pc = "tools",
                        !.currentContents =
                            Append(@, [role |-> "model", parts |-> peer.functionCalls]),
                        !.toolPromises = fanOut(tools, peer.functionCalls),
                        !.settleOrder = <<>>,
                        !.script[Len(peer.script)].outcomes =
                            [i \in 1..Len(peer.functionCalls) |-> Pending]]
               ELSE [peer EXCEPT !.pc = "done", !.enqueued = tryEnd(@)]
    /\ UNCHANGED ownVars

PeerSettles(i, outcome) ==
    /\ peer.pc = "tools"
    /\ i \in Running(peer.toolPromises)
    /\ outcome.threw => peer.credit.extras > 0
    /\ peer' = [peer EXCEPT
                   !.toolPromises[i] =
                       Settled(ResponsePart(peer.toolPromises[i].name,
                                            executeTool(outcome).value)),
                   !.settleOrder = Append(@, i),
                   !.script[Len(peer.script)].outcomes[i] = outcome,
                   !.credit.extras = IF outcome.threw THEN @ - 1 ELSE @]
    /\ UNCHANGED ownVars

PeerJoin ==
    /\ peer.pc = "tools"
    /\ allSettled(peer.toolPromises)
    /\ peer' = [peer EXCEPT
                   !.pc = "loop",
                   !.currentContents =
                       Append(@, [role |-> "tool",
                                  parts |-> collect(peer.toolPromises, peer.settleOrder, 1)])]
    /\ UNCHANGED ownVars

(* What the second request wrote down for the turn of the first.           *)
Scripted == peer.script[turnCount]

PairNext ==
    \/ PostAccepted
    \/ PeerStart
    \/ PeerInvokeModel
    \/ \E chunk \in PairChunks : PeerChunk(chunk)
    \/ PeerEnd
    \/ \E i \in 1..Len(peer.toolPromises), outcome \in ToolOutcomes : PeerSettles(i, outcome)
    \/ PeerJoin
    \/ Len(peer.script) > turnCount /\ InvokeModel
    \/ \E chunk \in PairChunks :
           /\ pc = "streaming"
           /\ Len(yielded) < Len(Scripted.chunks)
           /\ chunk = Scripted.chunks[Len(yielded) + 1]
           /\ BackendChunk(chunk)
    \/ /\ pc = "streaming"
       /\ Len(yielded) = Len(Scripted.chunks)
       /\ (peer.turnCount > turnCount \/ peer.pc # "streaming")
       /\ BackendEnd
    \/ \E i \in 1..Len(toolPromises), outcome \in ToolOutcomes :
           /\ pc = "tools"
           /\ outcome = Scripted.outcomes[i]
           /\ ToolSettles(i, outcome)
    \/ BatchJoin

PairSpec == PairInit /\ [][PairNext]_vars

IsPrefixOf(s, t) == Len(s) <= Len(t) /\ SubSeq(t, 1, Len(s)) = s

(* One of the two is the other, or its beginning. *)
Agree(s, t) == IsPrefixOf(s, t) \/ IsPrefixOf(t, s)

(* The two requests have been given the same chunks of the same turn.      *)
SamePoint ==
    /\ pc = "streaming"
    /\ peer.pc = "streaming"
    /\ turnCount = peer.turnCount
    /\ Len(yielded) = Len(Scripted.chunks)

(* C26: two requests in flight on one service share no state that changes: *)
(* a step of one leaves the history, accumulator, calls and stream of the  *)
(* other as they were, and, given the same chunks from the backend and the *)
(* same outcomes from the tools, the two produce the same events and the   *)
(* same history, however their steps are interleaved.                      *)
C26_NoSharedState ==
    /\ [](/\ peer.pc # "idle" =>
                 (IsPrefixOf(enqueued, peer.enqueued)
                     /\ Agree(currentContents, peer.currentContents))
          /\ SamePoint => (textBuffer = peer.textBuffer
                              /\ functionCalls = peer.functionCalls
                              /\ enqueued = peer.enqueued
                              /\ currentContents = peer.currentContents)
          /\ (pc = "done" /\ peer.pc = "done") =>
                 (enqueued = peer.enqueued /\ currentContents = peer.currentContents))
    /\ [][ /\ peer' # peer =>
                UNCHANGED <<currentContents, turnCount, functionCalls, textBuffer,
                            toolPromises, enqueued>>
           /\ <<currentContents, turnCount, functionCalls, textBuffer, toolPromises,
                enqueued>>' # <<currentContents, turnCount, functionCalls, textBuffer,
                                toolPromises, enqueued>>
                => peer' = peer ]_vars

(* Both requests stream: the second is in its second turn with "ha" in    *)
(* its accumulator, the first in its first turn with "h" in its own.       *)
C26_Witness ==
    /\ pc = "streaming"
    /\ turnCount = 1
    /\ textBuffer = "h"
    /\ peer.pc = "streaming"
    /\ peer.turnCount = 2
    /\ peer.textBuffer = "ha"
    /\ Len(peer.currentContents) = Len(currentContents) + 2

---------------------------------------------------------------------------
(* The accumulator and the deltas of one turn.                             *)

(* The text-delta wires among the chunks a step enqueued.                  *)
DeltasOf(queue) == SelectSeq(queue, IsDeltaWire)

(* C35: within one turn, after any sequence of fragments, the accumulator  *)
(* is the concatenation of the text-deltas emitted so far in the turn, and *)
(* so is the textBuffer streamTurn returns; a fragment only extends the    *)
(* accumulator, by exactly what it put on the stream, and no delta on the  *)
(* stream is the empty string.                                             *)
C35_AccumulatorIsStreamedText ==
    /\ [](StreamedText(enqueued) = textBuffer)
    /\ [](\A k \in 1..Len(enqueued) :
              IsDeltaWire(enqueued[k]) => DeltaOf(enqueued[k]) # "")
    /\ [][ received' # received =>
              /\ IsPrefix(textBuffer, textBuffer')
              /\ textBuffer' = textBuffer \o StreamedText(Emitted)
              /\ Len(DeltasOf(Emitted)) = Len(Emitted) ]_vars

(* A finished turn of three fragments: new text, the text resent (nothing  *)
(* emitted), text that does not extend it: two deltas, "ha" and "h".       *)
C35_Witness ==
    /\ pc = "done"
    /\ received = <<[text |-> "ha"], [text |-> "ha"], [text |-> "h"]>>
    /\ textBuffer = "hah"
    /\ DeltasOf(enqueued) = <<DeltaWire("ha"), DeltaWire("h")>>

---------------------------------------------------------------------------
(* The last permitted turn.                                                *)

(* The last permitted turn has requested tools. *)
LastTurnCalled == turnCount = MAX_TURNS /\ functionCalls # <<>> /\ failure = NoError

(* The invocations the batch owes: one per call that resolves, in order.   *)
RunsOwed ==
    [k \in 1..Cardinality(ToolCalls) |->
        [name |-> NameOf(Kth(ToolCalls, k)),
         args |-> argsOf(BatchCalls[Kth(ToolCalls, k)].functionCall)]]

LatestRuns ==
    SubSeq(toolRuns, Len(toolRuns) - Cardinality(ToolCalls) + 1, Len(toolRuns))

(* C36: when the fifth, last permitted turn requests tools, the loop still *)
(* appends the model entry with the calls, invokes every requested tool    *)
(* that resolves, awaits the batch and appends the tool entry; only then   *)
(* does it stop, without invoking the model again: the history ends with   *)
(* results no model turn was given.                                        *)
C36_LastTurnBatchStillRuns ==
    /\ []((LastTurnCalled /\ pc = "tools") =>
             /\ Len(Appended) = 2 * MAX_TURNS - 1
             /\ Last(currentContents) = [role |-> "model", parts |-> functionCalls]
             /\ Len(toolRuns) >= Cardinality(ToolCalls)
             /\ LatestRuns = RunsOwed)
    /\ []((LastTurnCalled /\ pc \in {"loop", "done"}) =>
             /\ Len(Appended) = 2 * MAX_TURNS
             /\ Appended[2 * MAX_TURNS - 1] = [role |-> "model", parts |-> functionCalls]
             /\ Last(currentContents).role = "tool"
             /\ Len(Last(currentContents).parts) = Cardinality(NamedCalls)
             /\ Len(toolRuns) >= Cardinality(ToolCalls)
             /\ LatestRuns = RunsOwed
             /\ modelCalls = MAX_TURNS)
    /\ [][ (pc = "streaming" /\ turnCount = MAX_TURNS /\ functionCalls # <<>>
              /\ pc' # "streaming" /\ failure' = NoError) => pc' = "tools" ]_vars
    /\ [][ (pc = "loop" /\ turnCount = MAX_TURNS) =>
              /\ pc' = "done"
              /\ failure' = NoError
              /\ modelCalls' = modelCalls
              /\ toolRuns' = toolRuns
              /\ currentContents' = currentContents
              /\ enqueued' = enqueued \o EndWires ]_vars

(* The request is over after five turns, each of which asked for mockTool: *)
(* the tool ran five times, the model was invoked five times, and the      *)
(* history ends with the result of the fifth run.                          *)
C36_Witness ==
    /\ pc = "done"
    /\ LastTurnCalled
    /\ modelCalls = MAX_TURNS
    /\ Len(toolRuns) = MAX_TURNS
    /\ Cardinality(ToolCalls) = 1
    /\ Last(currentContents) =
           [role |-> "tool", parts |-> <<Tagged("mockTool", [success |-> TRUE])>>]

---------------------------------------------------------------------------
(* What the loop is given.                                                 *)

(* C37: runConversationLoop leaves its inputs as they were: the initial    *)
(* contents keep their length and entries (they are what the adapter made  *)
(* of the request, and the beginning of the loop's own copy, which alone   *)
(* grows), and neither the service's tool list nor the formatted catalog   *)
(* is changed by any turn or batch of tools.                               *)
C37_InputsUnchanged ==
    /\ [](Started =>
             /\ initialContents = transformMessagesToContents(messagesOf(body).array)
             /\ formattedTools = formatToolsForGenAI(tools)
             /\ Len(currentContents) >= Len(initialContents)
             /\ SubSeq(currentContents, 1, Len(initialContents)) = initialContents)
    /\ [][ /\ tools' = tools
           /\ pc # "idle" => /\ initialContents' = initialContents
                             /\ formattedTools' = formattedTools ]_vars

(* Two batches of tools were joined and a third turn has run: the copy has *)
(* grown by four entries, the initial contents still hold the one message  *)
(* of the request, and the catalog is the one formatted at the start.      *)
C37_Witness ==
    /\ pc = "done"
    /\ turnCount = 3
    /\ Len(toolRuns) >= 2
    /\ Len(initialContents) = 1
    /\ Len(currentContents) = 5
    /\ failure = NoError
    /\ tools = <<MockTool>>
    /\ formattedTools = <<[functionDeclarations |-> <<"mockTool">>]>>

---------------------------------------------------------------------------
(* A catalog with entries already in the backend's format.                 *)

(* A pre-formatted entry under the snake_case key.                         *)
SnakeTool == [function_declarations |-> <<"lookup">>]

CatalogConfigs ==
    { <<PreformattedTool>>, <<MockTool, PreformattedTool>>, <<SnakeTool, MockTool>> }

SearchCall == [functionCall |-> [name |-> "search", args |-> [q |-> "x"]]]

LookupCall == [functionCall |-> [name |-> "lookup", args |-> [q |-> "x"]]]

CatalogChunks ==
    { ChunkOf(<<MockCall>>), ChunkOf(<<SearchCall>>), ChunkOf(<<LookupCall>>),
      ChunkOf(<<SearchCall, MockCall>>), ChunkOf(<<[text |-> "h"]>>) }

CatalogInit ==
    /\ body = [messages |-> ArrayOf(<<[role |-> "user", id |-> "1",
                                       parts |-> <<[type |-> "text", text |-> "Hello"]>>]>>)]
    /\ NotStarted
    /\ peer = NoPeer
    /\ ollama = NoOllama
    /\ mockLlm = NoMockLlm
    /\ tools \in CatalogConfigs
    /\ formattedTools = <<>>
    /\ credit = [calls |-> MaxBatch, extras |-> MaxFragments]

CatalogNext ==
    \/ PostAccepted
    \/ InvokeModel
    \/ \E chunk \in CatalogChunks : BackendChunk(chunk)
    \/ BackendEnd
    \/ \E i \in 1..Len(toolPromises), outcome \in ToolOutcomes : ToolSettles(i, outcome)
    \/ BatchJoin

CatalogSpec == CatalogInit /\ [][CatalogNext]_vars

(* The names an entry of the formatted catalog declares to the model.      *)
DeclaredBy(entry) ==
    IF "functionDeclarations" \in DOMAIN entry
    THEN {entry.functionDeclarations[k] : k \in 1..Len(entry.functionDeclarations)}
    ELSE IF "function_declarations" \in DOMAIN entry
    THEN {entry.function_declarations[k] : k \in 1..Len(entry.function_declarations)}
    ELSE {}

Advertised(name) == \E k \in 1..Len(formattedTools) : name \in DeclaredBy(formattedTools[k])

(* Declared to the model, by a catalog entry that has no name property.    *)
DeclaredOnly(name) == Advertised(name) /\ ~Registered(name)

NotFoundPart(name) == Tagged(name, [error |-> "Tool not found"])

(* C38: tools are resolved among the catalog entries that have a name      *)
(* property only.  A call whose name is declared only inside a             *)
(* pre-formatted entry (functionDeclarations or function_declarations,     *)
(* handed to the model as it is) invokes nothing and is answered with the  *)
(* 'Tool not found' result under its name, although the model was told of  *)
(* that tool.                                                              *)
C38_PreformattedNeverResolved ==
    /\ \A r \in 1..Len(toolRuns) : ~DeclaredOnly(toolRuns[r].name)
    /\ \A k \in 1..Len(tools) :
          IsPreformatted(tools[k]) =>
              (Started => formattedTools[k] = tools[k])
    /\ \A i \in NamedCalls :
          DeclaredOnly(NameOf(i)) =>
              /\ (pc = "tools" /\ Len(toolPromises) = Len(BatchCalls)) =>
                     toolPromises[i] = Settled(NotFoundPart(NameOf(i)))
              /\ (pc = "loop" /\ Last(currentContents).role = "tool") =>
                     BatchResults[Rank(NamedCalls, i)] = NotFoundPart(NameOf(i))

(* The model asked for search, which it was told of, and for mockTool:     *)
(* mockTool alone ran, and search was answered with 'Tool not found'.      *)
C38_Witness ==
    /\ pc = "loop"
    /\ tools = <<MockTool, PreformattedTool>>
    /\ Advertised("search")
    /\ BatchCalls = <<SearchCall, MockCall>>
    /\ toolRuns = <<[name |-> "mockTool", args |-> [some |-> "arg"]]>>
    /\ BatchResults = <<NotFoundPart("search"), Tagged("mockTool", [success |-> TRUE])>>

---------------------------------------------------------------------------
(* MockLlm: a model that answers from a configured list of chunks.  Its    *)
(* generateContentAsync is an async generator: a call makes a generation,  *)
(* which runs when its consumer calls next() or a timer it awaits fires,   *)
(* up to its next await or yield.                                          *)

MaxGenerations == 2

MaxSets == 2

DefaultChunks == <<"Hello", " world", "!">>

MockChunkLists == { <<>>, <<"New", " ", "Response">>, <<"a", "">> }

Delays == {0, 10}

MockResponse(text, partial) ==
    [content |-> [role |-> "model", parts |-> <<[text |-> text]>>], partial |-> partial]

(* Variant: the chunks joined with a line feed between them.               *)
fullTextLines(chunks) == join(chunks, "\n")

(* this.responseChunks.join('') *)
fullText(chunks) == join(chunks, "")

(* generateContentAsync(llmRequest, stream): the generator, not yet run.   *)
Generation(stream) ==
    [stream |-> stream, pc |-> "created", source |-> <<>>, index |-> 0, yielded |-> <<>>]

(* yield { content: { role: 'model', parts: [{ text: chunkText }] },       *)
(* partial: true }                                                         *)
yieldChunk(g) ==
    [g EXCEPT !.yielded = Append(@, MockResponse(g.source[g.index], TRUE)),
              !.pc = "suspended"]

(* for (const chunkText of this.responseChunks): the next element of the   *)
(* array being iterated, the timer before it when a delay is set.          *)
loop(g, delay) ==
    IF g.index > Len(g.source) THEN [g EXCEPT !.pc = "done"]
    ELSE IF delay > 0 THEN [g EXCEPT !.pc = "pause"]
    ELSE yieldChunk(g)

(* After the initial delay: the chunks are read off the model: iterated in *)
(* streaming mode, joined and yielded at once otherwise.                   *)
enter(g, llm) ==
    IF g.stream
    THEN loop([g EXCEPT !.source = llm.responseChunks, !.index = 1], llm.responseDelay)
    ELSE [g EXCEPT !.source = llm.responseChunks,
                   !.yielded = <<MockResponse(fullText(llm.responseChunks), FALSE)>>,
                   !.pc = "suspended"]

(* The consumer calls next(): the generator starts, or goes on after the   *)
(* yield it was suspended at.                                              *)
resume(g, llm) ==
    IF g.pc = "created"
    THEN IF llm.responseDelay > 0 THEN [g EXCEPT !.pc = "delay"] ELSE enter(g, llm)
    ELSE IF g.stream THEN loop([g EXCEPT !.index = @ + 1], llm.responseDelay)
    ELSE [g EXCEPT !.pc = "done"]

(* The timer the generator awaits fires. *)
timeout(g, llm) == IF g.pc = "delay" THEN enter(g, llm) ELSE yieldChunk(g)

(* new MockLlm(modelName, delay, chunks) *)
MockInit ==
    /\ mockLlm \in {[responseChunks |-> DefaultChunks, responseDelay |-> d,
                     configured |-> <<DefaultChunks>>, delaySets |-> 0,
                     generations |-> <<>>] : d \in Delays}
    /\ ollama = NoOllama
    /\ body = [prompt |-> "Hello"]
    /\ NotStarted
    /\ peer = NoPeer
    /\ tools = <<MockTool>>
    /\ formattedTools = <<>>
    /\ credit = [calls |-> 0, extras |-> 0]

requestVars ==
    <<peer, ollama, body, response, pc, tools, formattedTools, initialContents,
      currentContents, turnCount, functionCalls, textBuffer, received, yielded, effects,
      toolPromises, outcomes, settleOrder, enqueued, closeCount, modelCalls,
      toolRuns, failure, credit>>

Sets == Len(mockLlm.configured) - 1 + mockLlm.delaySets

(* Variant: the chunks added to those configured before.                   *)
SetMockResponseAppending(chunks) ==
    /\ Sets < MaxSets
    /\ mockLlm' = [mockLlm EXCEPT !.responseChunks = @ \o chunks,
                                  !.configured = Append(@, chunks)]
    /\ UNCHANGED requestVars

(* setMockResponse(chunks) *)
SetMockResponse(chunks) ==
    /\ Sets < MaxSets
    /\ mockLlm' = [mockLlm EXCEPT !.responseChunks = chunks,
                                  !.configured = Append(@, chunks)]
    /\ UNCHANGED requestVars

(* setResponseDelay(delayMs) *)
SetResponseDelay(delayMs) ==
    /\ Sets < MaxSets
    /\ delayMs # mockLlm.responseDelay
    /\ mockLlm' = [mockLlm EXCEPT !.responseDelay = delayMs, !.delaySets = @ + 1]
    /\ UNCHANGED requestVars

(* generateContentAsync is called: a generator is made, nothing runs yet.  *)
GenerateContentAsync(stream) ==
    /\ Len(mockLlm.generations) < MaxGenerations
    /\ mockLlm' = [mockLlm EXCEPT !.generations = Append(@, Generation(stream))]
    /\ UNCHANGED requestVars

(* The consumer of generation k calls next().                              *)
NextCalled(k) ==
    /\ k \in 1..Len(mockLlm.generations)
    /\ mockLlm.generations[k].pc \in {"created", "suspended"}
    /\ mockLlm' = [mockLlm EXCEPT !.generations[k] = resume(@, mockLlm)]
    /\ UNCHANGED requestVars

(* The timer generation k awaits fires.                                    *)
TimerFires(k) ==
    /\ k \in 1..Len(mockLlm.generations)
    /\ mockLlm.generations[k].pc \in {"delay", "pause"}
    /\ mockLlm' = [mockLlm EXCEPT !.generations[k] = timeout(@, mockLlm)]
    /\ UNCHANGED requestVars

MockNext ==
    \/ \E chunks \in MockChunkLists : SetMockResponse(chunks)
    \/ \E delayMs \in Delays : SetResponseDelay(delayMs)
    \/ \E stream \in BOOLEAN : GenerateContentAsync(stream)
    \/ \E k \in 1..MaxGenerations : NextCalled(k)
    \/ \E k \in 1..MaxGenerations : TimerFires(k)

MockSpec == MockInit /\ [][MockNext]_vars

(* The texts a generation has yielded. *)
YieldedTexts(g) == [k \in 1..Len(g.yielded) |-> g.yielded[k].content.parts[1].text]

Generations == {mockLlm.generations[k] : k \in 1..Len(mockLlm.generations)}

Finished(g) == g.pc = "done"

RECURSIVE Concat(_)
Concat(texts) == IF texts = <<>> THEN "" ELSE Head(texts) \o Concat(Tail(texts))

(* C33: a streaming generation yields one partial response per chunk of    *)
(* the list it reads, in the list's order, each with that chunk's text and *)
(* nothing else; a non-streaming generation yields exactly one response,   *)
(* not partial, whose text is the chunks concatenated; so the texts of a   *)
(* streaming generation, concatenated, are the text of a non-streaming one *)
(* over the same list, whatever the list (the empty list included).        *)
C33_MockLlmModes ==
    /\ \A g \in Generations :
          /\ \A k \in 1..Len(g.yielded) :
                /\ DOMAIN g.yielded[k] = {"content", "partial"}
                /\ g.yielded[k].content.role = "model"
                /\ Len(g.yielded[k].content.parts) = 1
                /\ DOMAIN g.yielded[k].content.parts[1] = {"text"}
                /\ g.yielded[k].partial = g.stream
          /\ g.stream =>
                /\ Len(g.yielded) <= Len(g.source)
                /\ YieldedTexts(g) = SubSeq(g.source, 1, Len(g.yielded))
                /\ Finished(g) => YieldedTexts(g) = g.source
          /\ ~g.stream =>
                /\ Len(g.yielded) <= 1
                /\ g.pc \in {"suspended", "done"} =>
                      YieldedTexts(g) = <<Concat(g.source)>>
    /\ \A g, h \in Generations :
          (g.stream /\ ~h.stream /\ Finished(g) /\ Finished(h) /\ g.source = h.source) =>
              Concat(YieldedTexts(g)) = YieldedTexts(h)[1]

(* The default chunks, once streamed and once in one piece.                *)
C33_Witness ==
    /\ Len(mockLlm.generations) = 2
    /\ mockLlm.generations[1].stream
    /\ Finished(mockLlm.generations[1])
    /\ YieldedTexts(mockLlm.generations[1]) = <<"Hello", " world", "!">>
    /\ ~mockLlm.generations[2].stream
    /\ Finished(mockLlm.generations[2])
    /\ YieldedTexts(mockLlm.generations[2]) = <<"Hello world!">>

(* Generation k reads the model's chunks in this step: it leaves the start *)
(* or the initial delay.                                                   *)
Reads(k) ==
    /\ k <= Len(mockLlm.generations)
    /\ mockLlm.generations[k].pc \in {"created", "delay"}
    /\ mockLlm'.generations[k].pc \notin {"created", "delay"}

---------------------------------------------------------------------------
(* OllamaModel.sanitizeSchema.  A schema is a JSON value: an object (its   *)
(* members by key), an array, a string, a boolean, null, or undefined.     *)

MaxDepth == 1

ObjectOf(members) == [object |-> members]

BooleanOf(b) == [boolean |-> b]

(* typeof v === 'object' *)
isObjectType(v) == "object" \in DOMAIN v \/ "array" \in DOMAIN v \/ "null" \in DOMAIN v

UpperCase == "ABCDEFGHIJKLMNOPQRSTUVWXYZ"

LowerCase == "abcdefghijklmnopqrstuvwxyz"

lowerChar(c) ==
    IF \E i \in 1..Len(UpperCase) : SubSeq(UpperCase, i, i) = c
    THEN LET i == CHOOSE j \in 1..Len(UpperCase) : SubSeq(UpperCase, j, j) = c
         IN  SubSeq(LowerCase, i, i)
    ELSE c

(* String.prototype.toLowerCase, on the letters A to Z.                    *)
RECURSIVE toLowerCase(_)
toLowerCase(s) ==
    IF s = "" THEN "" ELSE lowerChar(SubSeq(s, 1, 1)) \o toLowerCase(SubSeq(s, 2, Len(s)))

(* Variant: the type of the schema itself lowercased, nothing below it.    *)
sanitizeSchemaShallow(schema) ==
    IF ~truthy(schema) \/ ~isObjectType(schema) \/ isArray(schema) THEN schema
    ELSE IF "type" \in DOMAIN schema.object /\ truthy(schema.object.type)
         THEN ObjectOf([schema.object EXCEPT !.type = StringOf(toLowerCase(@.string))])
         ELSE schema

RECURSIVE sanitizeSchema(_)
sanitizeSchema(schema) ==
    IF ~truthy(schema) \/ ~isObjectType(schema) THEN schema
    ELSE IF isArray(schema)
    THEN ArrayOf([k \in 1..Len(schema.array) |-> sanitizeSchema(schema.array[k])])
    ELSE LET copy == schema.object
             typed == IF "type" \in DOMAIN copy /\ truthy(copy.type)
                      THEN [copy EXCEPT !.type = StringOf(toLowerCase(@.string))]
                      ELSE copy
             newSchema ==
                 IF /\ "properties" \in DOMAIN typed
                    /\ truthy(typed.properties)
                    /\ isObjectType(typed.properties)
                 THEN [typed EXCEPT !.properties =
                         ObjectOf([key \in DOMAIN typed.properties.object |->
                                      sanitizeSchema(typed.properties.object[key])])]
                 ELSE typed
         IN  ObjectOf([key \in DOMAIN newSchema |->
                         IF key # "type" /\ key # "properties" /\ isObjectType(newSchema[key])
                         THEN sanitizeSchema(newSchema[key])
                         ELSE newSchema[key]])

(* Schemas without a schema below them. *)
LeafSchemas ==
    { ObjectOf([type |-> StringOf("STRING")]),
      ObjectOf([type |-> StringOf("integer")]),
      ObjectOf([type |-> StringOf("String"), format |-> StringOf("DATE"),
                enum |-> ArrayOf(<<StringOf("STRING"), StringOf("A")>>)]),
      ObjectOf([type |-> StringOf(""), nullable |-> BooleanOf(TRUE), default |-> Null]),
      ObjectOf([description |-> StringOf("Type OBJECT")]),
      ObjectOf([type |-> StringOf("NUMBER"), title |-> StringOf("Type")]) }

(* Schemas with the schemas of S inside properties (one of them under the *)
(* name 'type'), inside items, and inside an array.                        *)
Nesting(S) ==
    {ObjectOf([type |-> StringOf("OBJECT"),
               properties |-> ObjectOf([city |-> a, type |-> b]),
               required |-> ArrayOf(<<StringOf("city")>>)]) : a, b \in S}
        \cup {ObjectOf([type |-> StringOf("ARRAY"), items |-> a]) : a \in S}
        \cup {ObjectOf([anyOf |-> ArrayOf(<<a, b>>)]) : a, b \in S}

RECURSIVE SchemasUpTo(_)
SchemasUpTo(n) ==
    IF n = 0 THEN LeafSchemas ELSE SchemasUpTo(n - 1) \cup Nesting(SchemasUpTo(n - 1))

(* 'should sanitize complex nested schemas' *)
ComplexSchema ==
    ObjectOf([type |-> StringOf("OBJECT"),
              properties |-> ObjectOf(
                 [details |-> ObjectOf([type |-> StringOf("OBJECT"),
                                        properties |-> ObjectOf(
                                           [count |-> ObjectOf([type |-> StringOf("INTEGER")])])]),
                  list |-> ObjectOf([type |-> StringOf("ARRAY"),
                                     items |-> ObjectOf([type |-> StringOf("STRING")])])])])

(* What decl.parameters may be. *)
Schemas ==
    SchemasUpTo(MaxDepth)
        \cup { ComplexSchema, Undefined, Null, StringOf("STRING"), ObjectOf(<<>>),
               ArrayOf(<<ObjectOf([type |-> StringOf("STRING")])>>) }

SchemaInit ==
    /\ ollama \in {[schema |-> s, calls |-> 0, sanitized |-> Undefined, again |-> Undefined] :
                      s \in Schemas}
    /\ mockLlm = NoMockLlm
    /\ body = [prompt |-> "Hello"]
    /\ NotStarted
    /\ peer = NoPeer
    /\ tools = <<MockTool>>
    /\ formattedTools = <<>>
    /\ credit = [calls |-> 0, extras |-> 0]

modelVars ==
    <<peer, mockLlm, body, response, pc, tools, formattedTools, initialContents,
      currentContents, turnCount, functionCalls, textBuffer, received, yielded, effects,
      toolPromises, outcomes, settleOrder, enqueued, closeCount, modelCalls,
      toolRuns, failure, credit>>

(* Variant: the schema given is the one written to.                        *)
SanitizeSchemaInPlace ==
    /\ ollama.calls = 0
    /\ ollama' = [ollama EXCEPT !.calls = 1,
                                !.sanitized = sanitizeSchema(ollama.schema),
                                !.schema = sanitizeSchema(ollama.schema)]
    /\ UNCHANGED modelVars

(* this.sanitizeSchema(decl.parameters): the result is a copy; the schema  *)
(* given is only read.                                                     *)
SanitizeSchema ==
    /\ ollama.calls = 0
    /\ ollama' = [ollama EXCEPT !.calls = 1,
                                !.sanitized = sanitizeSchema(ollama.schema)]
    /\ UNCHANGED modelVars

(* this.sanitizeSchema, given what it returned.                            *)
SanitizeAgain ==
    /\ ollama.calls = 1
    /\ ollama' = [ollama EXCEPT !.calls = 2,
                                !.again = sanitizeSchema(ollama.sanitized)]
    /\ UNCHANGED modelVars

SchemaNext == SanitizeSchema \/ SanitizeAgain

SchemaSpec == SchemaInit /\ [][SchemaNext]_vars

(* The lowercase form of the type names the schemas use.                   *)
Lowercased(s) ==
    CASE s = "STRING" -> "string"
      [] s = "String" -> "string"
      [] s = "OBJECT" -> "object"
      [] s = "ARRAY" -> "array"
      [] s = "INTEGER" -> "integer"
      [] s = "NUMBER" -> "number"
      [] OTHER -> s

(* The value with every string under a key 'type' lowercased, at any       *)
(* depth, and nothing else changed.                                        *)
RECURSIVE TypesLowered(_)
TypesLowered(v) ==
    IF "array" \in DOMAIN v
    THEN ArrayOf([k \in 1..Len(v.array) |-> TypesLowered(v.array[k])])
    ELSE IF "object" \in DOMAIN v
    THEN ObjectOf([key \in DOMAIN v.object |->
                      IF key = "type" /\ "string" \in DOMAIN v.object[key]
                      THEN StringOf(Lowercased(v.object[key].string))
                      ELSE TypesLowered(v.object[key])])
    ELSE v

(* C32: sanitizeSchema returns the schema with every 'type' string         *)
(* lowercased, at the top level, inside properties, inside items and any   *)
(* other nested object or array, and everything else as it was (keys,      *)
(* other strings such as enum values and formats, booleans, null; a        *)
(* schema that is undefined, null or not an object is returned as it is);  *)
(* the schema given is not written to; sanitizing the result again gives   *)
(* the result.                                                             *)
C32_SanitizeSchema ==
    /\ [](ollama.calls >= 1 => ollama.sanitized = TypesLowered(ollama.schema))
    /\ [](ollama.calls = 2 => ollama.again = ollama.sanitized)
    /\ [][ /\ ollama'.schema = ollama.schema
           /\ ollama.calls >= 1 => ollama'.sanitized = ollama.sanitized ]_vars

(* The nested schema of the test suite, sanitized twice: OBJECT, INTEGER,  *)
(* ARRAY and STRING are lowercased two levels down, and the schema given   *)
(* still has them in capitals.                                             *)
C32_Witness ==
    /\ ollama.calls = 2
    /\ ollama.schema = ComplexSchema
    /\ ollama.sanitized =
          ObjectOf([type |-> StringOf("object"),
                    properties |-> ObjectOf(
                       [details |-> ObjectOf([type |-> StringOf("object"),
                                              properties |-> ObjectOf(
                                                 [count |-> ObjectOf([type |-> StringOf("integer")])])]),
                        list |-> ObjectOf([type |-> StringOf("array"),
                                           items |-> ObjectOf([type |-> StringOf("string")])])])])
    /\ ollama.again = ollama.sanitized

---------------------------------------------------------------------------
(* OllamaModel.generateContentAsync: an async generator over the Ollama    *)
(* client.  The client is the environment: chat resolves or rejects, and a *)
(* streamed response gives parts, ends, or throws while it is iterated.    *)

MaxStreamParts == 2

WeatherDeclaration ==
    [name |-> "get_weather", description |-> "Get weather",
     parameters |-> ObjectOf([type |-> StringOf("OBJECT"),
                              properties |-> ObjectOf(
                                 [city |-> ObjectOf([type |-> StringOf("STRING")])])])]

(* A declaration without description, and one without name.                *)
ComplexDeclaration == [name |-> "complex_tool", parameters |-> ComplexSchema]

NamelessDeclaration == [description |-> "No name", parameters |-> Undefined]

Hi == <<[role |-> "user", parts |-> <<[text |-> "Hi"]>>]>>

LlmRequests ==
    { [contents |-> Hi],
      [contents |-> Hi,
       config |-> [tools |-> <<[functionDeclarations |-> <<WeatherDeclaration>>],
                               [name |-> "mockTool"]>>]],
      [contents |-> Hi,
       config |-> [tools |-> <<[function_declarations |->
                                   <<NamelessDeclaration, ComplexDeclaration>>]>>]] }

(* llmRequest.config.tools.flatMap(...): the declarations of the entries   *)
(* that have them under either key.                                        *)
RECURSIVE declarationsOf(_)
declarationsOf(ts) ==
    IF ts = <<>> THEN <<>>
    ELSE (IF "functionDeclarations" \in DOMAIN Head(ts) THEN Head(ts).functionDeclarations
          ELSE IF "function_declarations" \in DOMAIN Head(ts)
               THEN Head(ts).function_declarations
          ELSE <<>>) \o declarationsOf(Tail(ts))

hasDeclName(decl) == "name" \in DOMAIN decl /\ decl.name # ""

ollamaTool(decl) ==
    [type |-> "function",
     function |-> [name |-> decl.name,
                   description |-> IF "description" \in DOMAIN decl /\ decl.description # ""
                                   THEN decl.description ELSE "",
                   parameters |-> sanitizeSchema(IF "parameters" \in DOMAIN decl
                                                 THEN decl.parameters ELSE Undefined)]]

(* The tools of the chat request: none unless the request declares some.   *)
prepareTools(llmRequest) ==
    IF "config" \notin DOMAIN llmRequest \/ "tools" \notin DOMAIN llmRequest.config
    THEN <<>>
    ELSE LET named == SelectSeq(declarationsOf(llmRequest.config.tools), hasDeclName)
         IN  [k \in 1..Len(named) |-> ollamaTool(named[k])]

ModelName == "qwen3:0.6b"

(* streamRequest / nonStreamRequest *)
chatRequest(llmRequest, stream) ==
    LET base == [model |-> ModelName,
                 messages |-> convertToOllamaMessages(llmRequest.contents),
                 stream |-> stream]
        prepared == prepareTools(llmRequest)
    IN  IF Len(prepared) > 0
        THEN [model |-> base.model, messages |-> base.messages, stream |-> base.stream,
              tools |-> prepared]
        ELSE base

WeatherCall == [function |-> [name |-> "get_weather", arguments |-> [city |-> "Paris"]]]

TimeCall == [function |-> [name |-> "get_time", arguments |-> [zone |-> "UTC"]]]

(* What the client may give: parts of a streamed response, or the response *)
(* of a chat that does not stream.                                         *)
OllamaStreamParts ==
    { [message |-> [content |-> "Hello"]],
      [message |-> [content |-> ""]],
      [message |-> [content |-> "", tool_calls |-> <<WeatherCall>>]],
      [message |-> [content |-> "On it", tool_calls |-> <<WeatherCall, TimeCall>>]],
      [message |-> [content |-> "", tool_calls |-> <<>>]],
      [done |-> TRUE] }

OllamaResponses ==
    { [message |-> [content |-> "Full response"]],
      [message |-> [content |-> ""]],
      [message |-> [content |-> "", tool_calls |-> <<WeatherCall>>]],
      [message |-> [content |-> "On it", tool_calls |-> <<WeatherCall, TimeCall>>]] }

OllamaErrors == {ErrorObject("Ollama connection failed"), ThrownString("fetch failed")}

(* tool_calls.map(tc => ({ functionCall: { name, args } }))                *)
toolCallParts(calls) ==
    [k \in 1..Len(calls) |->
        [functionCall |-> [name |-> calls[k].function.name,
                           args |-> calls[k].function.arguments]]]

hasMessage(part) == "message" \in DOMAIN part

(* part.message.tool_calls, as a condition: an array, empty or not.        *)
hasToolCalls(message) == "tool_calls" \in DOMAIN message

hasContent(message) == "content" \in DOMAIN message /\ message.content # ""

(* Variant: the text of a part yielded before its tool calls.              *)
streamResponsesTextFirst(part) ==
    (IF hasMessage(part) /\ hasContent(part.message)
     THEN <<[content |-> [role |-> "model", parts |-> <<[text |-> part.message.content]>>],
             partial |-> TRUE]>>
     ELSE <<>>)
    \o (IF hasMessage(part) /\ hasToolCalls(part.message)
        THEN <<[content |-> [role |-> "model",
                             parts |-> toolCallParts(part.message.tool_calls)],
                partial |-> FALSE]>>
        ELSE <<>>)

(* The body of for await (const part of response): what it yields for one  *)
(* part, in order.                                                         *)
streamResponses(part) ==
    (IF hasMessage(part) /\ hasToolCalls(part.message)
     THEN <<[content |-> [role |-> "model",
                          parts |-> toolCallParts(part.message.tool_calls)],
             partial |-> FALSE]>>
     ELSE <<>>)
    \o (IF hasMessage(part) /\ hasContent(part.message)
        THEN <<[content |-> [role |-> "model", parts |-> <<[text |-> part.message.content]>>],
                partial |-> TRUE]>>
        ELSE <<>>)

(* The one response of a chat that does not stream.                        *)
fullResponse(r) ==
    [content |->
        [role |-> "model",
         parts |-> (IF hasToolCalls(r.message) THEN toolCallParts(r.message.tool_calls)
                    ELSE <<>>)
                   \o (IF hasContent(r.message) THEN <<[text |-> r.message.content]>>
                       ELSE <<>>)]]

(* Variant: the error thrown on as it came.                                *)
rethrownAsIs(error) == error

(* catch (error) { throw new Error(String(error)); }                       *)
rethrown(error) == ErrorObject(String(error))

GenerateInit ==
    /\ ollama \in {[llmRequest |-> r, stream |-> s, pc |-> "created", chatCalls |-> 0,
                    request |-> Undefined, consumed |-> <<>>, yielded |-> <<>>,
                    raised |-> NoError, thrown |-> NoError] :
                      r \in LlmRequests, s \in BOOLEAN}
    /\ mockLlm = NoMockLlm
    /\ body = [prompt |-> "Hello"]
    /\ NotStarted
    /\ peer = NoPeer
    /\ tools = <<MockTool>>
    /\ formattedTools = <<>>
    /\ credit = [calls |-> 0, extras |-> 0]

(* The consumer's first next(): the messages and the tools are made and    *)
(* this.ollama.chat is called and awaited.                                 *)
StartGeneration ==
    /\ ollama.pc = "created"
    /\ ollama' = [ollama EXCEPT !.pc = "chat",
                                !.request = chatRequest(ollama.llmRequest, ollama.stream),
                                !.chatCalls = @ + 1]
    /\ UNCHANGED modelVars

(* The generator's catch block: the error goes to the consumer, wrapped.   *)
Rethrow(e) ==
    ollama' = [ollama EXCEPT !.pc = "threw", !.raised = e, !.thrown = rethrown(e)]

(* Variant: a failed chat is called again.                                 *)
ChatRejectsAndRetries(e) ==
    /\ ollama.pc = "chat"
    /\ ollama' = [ollama EXCEPT !.raised = e, !.chatCalls = @ + 1,
                                !.pc = IF ollama.chatCalls < 2 THEN "chat" ELSE "threw",
                                !.thrown = IF ollama.chatCalls < 2 THEN @ ELSE rethrown(e)]
    /\ UNCHANGED modelVars

(* await this.ollama.chat(...) rejects.                                    *)
ChatRejects(e) ==
    /\ ollama.pc = "chat"
    /\ Rethrow(e)
    /\ UNCHANGED modelVars

(* await this.ollama.chat(streamRequest) resolves with the stream.         *)
ChatStreams ==
    /\ ollama.pc = "chat"
    /\ ollama.stream
    /\ ollama' = [ollama EXCEPT !.pc = "iterating"]
    /\ UNCHANGED modelVars

(* await this.ollama.chat(nonStreamRequest) resolves: one response is      *)
(* yielded and the generator returns.                                      *)
ChatResponds(r) ==
    /\ ollama.pc = "chat"
    /\ ~ollama.stream
    /\ ollama' = [ollama EXCEPT !.pc = "done",
                                !.consumed = Append(@, r),
                                !.yielded = Append(@, fullResponse(r))]
    /\ UNCHANGED modelVars

(* The stream gives a part.                                                *)
StreamPart(part) ==
    /\ ollama.pc = "iterating"
    /\ Len(ollama.consumed) < MaxStreamParts
    /\ ollama' = [ollama EXCEPT !.consumed = Append(@, part),
                                !.yielded = @ \o streamResponses(part)]
    /\ UNCHANGED modelVars

(* The stream throws while it is iterated.                                 *)
StreamThrows(e) ==
    /\ ollama.pc = "iterating"
    /\ Rethrow(e)
    /\ UNCHANGED modelVars

(* The stream is exhausted: the generator returns.                         *)
StreamEnds ==
    /\ ollama.pc = "iterating"
    /\ ollama' = [ollama EXCEPT !.pc = "done"]
    /\ UNCHANGED modelVars

GenerateNext ==
    \/ StartGeneration
    \/ \E e \in OllamaErrors : ChatRejects(e)
    \/ ChatStreams
    \/ \E r \in OllamaResponses : ChatResponds(r)
    \/ \E part \in OllamaStreamParts : StreamPart(part)
    \/ \E e \in OllamaErrors : StreamThrows(e)
    \/ StreamEnds

GenerateSpec == GenerateInit /\ [][GenerateNext]_vars

(* The client failed in this step. *)
ClientFails == ollama'.raised # ollama.raised

(* C31: a failure of the Ollama client, from the chat call or from the     *)
(* iteration of the stream, streaming or not, reaches the consumer as a    *)
(* new Error whose message is String(the original error), 'Error: Ollama   *)
(* connection failed' for an Error with that message; it is not swallowed  *)
(* (the generator never ends normally after it), nothing is yielded with   *)
(* or after it, and chat is not called again.                              *)
C31_ClientFailureRethrown ==
    /\ [][ ClientFails =>
              /\ ollama.raised = NoError
              /\ ollama'.pc = "threw"
              /\ ollama'.thrown.isError
              /\ ollama'.thrown.message =
                    (IF ollama'.raised.isError
                     THEN "Error: " \o ollama'.raised.message
                     ELSE ollama'.raised.message)
              /\ ollama'.yielded = ollama.yielded
              /\ ollama'.chatCalls = ollama.chatCalls ]_vars
    /\ [][ ollama.pc = "threw" => ollama' = ollama ]_vars
    /\ [](ollama.pc = "threw" <=> ollama.raised # NoError)
    /\ [](ollama.pc = "done" => (ollama.thrown = NoError /\ ollama.raised = NoError))
    /\ [](ollama.chatCalls <= 1)

(* The stream gave a part with text, which was yielded, and then threw an  *)
(* Error: the consumer has the one response and the wrapped error.         *)
C31_Witness ==
    /\ ollama.pc = "threw"
    /\ ollama.stream
    /\ ollama.raised = ErrorObject("Ollama connection failed")
    /\ ollama.thrown = ErrorObject("Error: Ollama connection failed")
    /\ Len(ollama.yielded) = 1
    /\ ollama.chatCalls = 1

(* What a stream part owes the consumer. *)
CallsResponse(part) ==
    [content |-> [role |-> "model",
                  parts |-> [k \in 1..Len(part.message.tool_calls) |->
                               [functionCall |->
                                  [name |-> part.message.tool_calls[k].function.name,
                                   args |-> part.message.tool_calls[k].function.arguments]]]],
     partial |-> FALSE]

TextResponse(part) ==
    [content |-> [role |-> "model", parts |-> <<[text |-> part.message.content]>>],
     partial |-> TRUE]

CarriesCalls(part) == "message" \in DOMAIN part /\ "tool_calls" \in DOMAIN part.message

CarriesText(part) ==
    /\ "message" \in DOMAIN part
    /\ "content" \in DOMAIN part.message
    /\ part.message.content # ""

OwedFor(part) ==
    IF CarriesCalls(part) /\ CarriesText(part) THEN <<CallsResponse(part), TextResponse(part)>>
    ELSE IF CarriesCalls(part) THEN <<CallsResponse(part)>>
    ELSE IF CarriesText(part) THEN <<TextResponse(part)>>
    ELSE <<>>

RECURSIVE OwedForAll(_)
OwedForAll(parts) ==
    IF parts = <<>> THEN <<>> ELSE OwedFor(Head(parts)) \o OwedForAll(Tail(parts))

(* C39: in streaming mode the responses come in the order of the stream's  *)
(* parts; a part with tool_calls gives a response with partial = false and *)
(* one functionCall part per tool call, in order (none for an empty        *)
(* tool_calls array), a part with non-empty content then gives a text      *)
(* response with partial = true, so the calls of a part come before its    *)
(* text; a part with neither, or without message, gives nothing.           *)
C39_StreamingOrder ==
    /\ [](ollama.stream => ollama.yielded = OwedForAll(ollama.consumed))
    /\ [][ (ollama.stream /\ ollama'.consumed # ollama.consumed) =>
              /\ ollama'.yielded = ollama.yielded \o OwedFor(Last(ollama'.consumed))
              /\ ollama'.pc = "iterating" ]_vars

(* Two parts: one with two tool calls and text, one with text only: three  *)
(* responses, the calls, the text of the first part, the text.             *)
C39_Witness ==
    /\ ollama.stream
    /\ ollama.pc = "done"
    /\ Len(ollama.consumed) = 2
    /\ ollama.consumed[1].message = [content |-> "On it", tool_calls |-> <<WeatherCall, TimeCall>>]
    /\ ollama.consumed[2] = [message |-> [content |-> "Hello"]]
    /\ Len(ollama.yielded) = 3
    /\ Len(ollama.yielded[1].content.parts) = 2
    /\ ollama.yielded[1].partial = FALSE
    /\ ollama.yielded[2].content.parts = <<[text |-> "On it"]>>
    /\ ollama.yielded[3].partial = TRUE

---------------------------------------------------------------------------
(* The service with an OllamaModel as its backend: the history of each     *)
(* turn is what generateContentAsync converts into Ollama messages.        *)

RoundTripChunks ==
    { ChunkOf(<<MockCall>>), ChunkOf(<<SearchCall, MockCall>>),
      ChunkOf(<<MockCall, SearchCall>>), ChunkOf(<<[text |-> "h"]>>) }

RoundTripInit ==
    /\ body = [messages |-> ArrayOf(<<[role |-> "user", id |-> "1",
                                       parts |-> <<[type |-> "text", text |-> "Hello"]>>]>>)]
    /\ NotStarted
    /\ peer = NoPeer
    /\ ollama = [contents |-> <<>>, called |-> FALSE, messages |-> <<>>]
    /\ mockLlm = NoMockLlm
    /\ tools = <<MockTool>>
    /\ formattedTools = <<>>
    /\ credit = [calls |-> MaxBatch + 1, extras |-> MaxFragments]

(* generateContentAsync of the turn's invocation: the contents it is given *)
(* are the loop's history, converted before the chat is called.            *)
ConvertHistory ==
    /\ pc = "streaming"
    /\ received = <<>>
    /\ ollama.contents # currentContents
    /\ ollama' = [contents |-> currentContents, called |-> TRUE,
                  messages |-> convertToOllamaMessages(currentContents)]
    /\ UNCHANGED modelVars

RoundTripNext ==
    \/ PostAccepted
    \/ InvokeModel
    \/ ConvertHistory
    \/ \E chunk \in RoundTripChunks : BackendChunk(chunk)
    \/ BackendEnd
    \/ \E i \in 1..Len(toolPromises), outcome \in ToolOutcomes : ToolSettles(i, outcome)
    \/ BatchJoin

RoundTripSpec == RoundTripInit /\ [][RoundTripNext]_vars

(* The JSON text of what a tool call came to. *)
PayloadText(payload) ==
    IF payload = [success |-> TRUE] THEN "{\"success\":true}"
    ELSE IF payload = [error |-> "Tool not found"] THEN "{\"error\":\"Tool not found\"}"
    ELSE "{\"error\":\"Error: Tool failed\"}"

(* The tool entries of the converted history. *)
ToolEntries ==
    {h \in 2..Len(ollama.contents) : ollama.contents[h].role = "tool"}

MessagesFor(h) ==
    SubSeq(ollama.messages, Offset(ollama.contents, h) + 1,
           Offset(ollama.contents, h) + Expected(ollama.contents[h]))

(* C40: the name a tool result is tagged with survives the conversion for  *)
(* an Ollama backend.  Every result part processToolCalls made becomes one *)
(* 'tool' message whose content is the JSON text of { name, content }: it  *)
(* holds the name of the tool that was called and the payload of that call *)
(* (the value returned, the error of a tool that threw, 'Tool not found'); *)
(* the tool messages follow the assistant message of the turn, one per     *)
(* call of its tool_calls, in the order of those calls.                    *)
C40_ToolNameRoundTrip ==
    \A h \in ToolEntries :
        LET results == ollama.contents[h].parts
            assistant == MessagesFor(h - 1)
            toolMessages == MessagesFor(h)
        IN  /\ Len(assistant) = 1
            /\ assistant[1].role = "assistant"
            /\ "tool_calls" \in DOMAIN assistant[1]
            /\ Len(toolMessages) = Len(assistant[1].tool_calls)
            /\ Len(toolMessages) = Len(results)
            /\ \A k \in 1..Len(toolMessages) :
                  /\ toolMessages[k].role = "tool"
                  /\ ollama.contents[h - 1].parts[k].functionCall.name
                        = assistant[1].tool_calls[k].function.name
                  /\ DOMAIN results[k].functionResponse.response = {"name", "content"}
                  /\ results[k].functionResponse.response.name
                        = assistant[1].tool_calls[k].function.name
                  /\ toolMessages[k].content =
                        "{\"name\":\"" \o assistant[1].tool_calls[k].function.name
                            \o "\",\"content\":"
                            \o PayloadText(results[k].functionResponse.response.content)
                            \o "}"

(* The second turn's request, after a batch of two calls: search, which    *)
(* is no tool of the service, and mockTool, which threw.                   *)
C40_Witness ==
    /\ ollama.called
    /\ turnCount = 2
    /\ Len(ollama.messages) = 4
    /\ ollama.messages[2].tool_calls =
          <<[function |-> [name |-> "search", arguments |-> [q |-> "x"]]],
            [function |-> [name |-> "mockTool", arguments |-> [some |-> "arg"]]]>>
    /\ ollama.messages[3] =
          [role |-> "tool",
           content |-> "{\"name\":\"search\",\"content\":{\"error\":\"Tool not found\"}}"]
    /\ ollama.messages[4] =
          [role |-> "tool",
           content |-> "{\"name\":\"mockTool\",\"content\":{\"error\":\"Error: Tool failed\"}}"]

====
